---- MODULE Spec2Model ----
(***************************************************************************)
(* BLESecure (pico-ble-secure): the pairing/bonding orchestration layer    *)
(* above the BTstack Security Manager.                                     *)
(*                                                                         *)
(* The model follows BLESecure.cpp function by function.  Every method of  *)
(* BLESecureClass is an operator from a context record (the object's       *)
(* fields, the state of the collaborators it calls, and the log of what    *)
(* the running operation has done so far) to the context after the call;   *)
(* every public entry point, SM event and link notification is an action   *)
(* that runs the whole method, the application callbacks it invokes        *)
(* included.                                                               *)
(***************************************************************************)
EXTENDS Integers, Sequences, FiniteSets, TLC

(***************************************************************************)
(* Bounds of the model.                                                    *)
(***************************************************************************)
MaxHandle == 2
\* The deepest write-behind of the bonding store's backend: how many issued
\* deletions may still be unapplied.
MaxLag == 1
\* The settings that a run of the calls outside a session changes from their
\* constructed values.
MaxSettings == 1

(***************************************************************************)
(* Program constants.                                                      *)
(***************************************************************************)
PAIRING_IDLE == 0
PAIRING_STARTED == 1
PAIRING_COMPLETE == 2
PAIRING_FAILED == 3
PairingStatuses == {PAIRING_IDLE, PAIRING_STARTED, PAIRING_COMPLETE, PAIRING_FAILED}

SECURITY_LOW == 0
SECURITY_MEDIUM == 1
SECURITY_HIGH == 2
SECURITY_HIGH_SC == 3
SecurityLevels == {SECURITY_LOW, SECURITY_MEDIUM, SECURITY_HIGH, SECURITY_HIGH_SC}

\* Authentication-requirement flags; auth_req is the set of flags or-ed together.
SM_AUTHREQ_BONDING == {"BONDING"}
SM_AUTHREQ_MITM_PROTECTION == {"MITM_PROTECTION"}
SM_AUTHREQ_SECURE_CONNECTION == {"SECURE_CONNECTION"}
SM_AUTHREQ_NONE == {}
AuthReqs == SUBSET (SM_AUTHREQ_BONDING \cup SM_AUTHREQ_MITM_PROTECTION
                    \cup SM_AUTHREQ_SECURE_CONNECTION)

IO_CAPABILITY_DISPLAY_YES_NO == "DISPLAY_YES_NO"
IO_CAPABILITY_NO_INPUT_NO_OUTPUT == "NO_INPUT_NO_OUTPUT"
IO_CAPABILITY_KEYBOARD_ONLY == "KEYBOARD_ONLY"
IoCapabilities == {IO_CAPABILITY_DISPLAY_YES_NO, IO_CAPABILITY_NO_INPUT_NO_OUTPUT,
                   IO_CAPABILITY_KEYBOARD_ONLY}

HCI_CON_HANDLE_INVALID == 65535
HCI_EVENT_PACKET == 4
ERROR_CODE_SUCCESS == 0
ERROR_CODE_AUTHENTICATION_FAILURE == 5
MaxPasskey == 999999

BLE_STATUS_OK == 0
BLE_STATUS_CONNECTION_ERROR == 3

\* The LE device database: its capacity and the address types of its slots.
NVM_NUM_DEVICE_DB_ENTRIES == 16
BD_ADDR_TYPE_LE_PUBLIC == 0
BD_ADDR_TYPE_LE_RANDOM == 1
BD_ADDR_TYPE_UNKNOWN == 255

nullptr == "nullptr"

(***************************************************************************)
(* Inputs.                                                                 *)
(***************************************************************************)
\* Connection handles the link layer hands out.
Handles == 1..MaxHandle

\* A BLEDevice* argument: the null pointer, or a device object and its handle.
BLEDevice(handle) == [null |-> FALSE, handle |-> handle]
NullDevice == [null |-> TRUE, handle |-> HCI_CON_HANDLE_INVALID]
Devices == {NullDevice} \cup {BLEDevice(h) : h \in Handles \cup {HCI_CON_HANDLE_INVALID}}
getHandle(device) == device.handle

\* uint32_t passkeys the application or the SM engine may pass.
Passkeys == {0, 123456, MaxPasskey, MaxPasskey + 1}

\* Status codes carried by a completion event.
EventStatuses == {ERROR_CODE_SUCCESS, ERROR_CODE_AUTHENTICATION_FAILURE}

\* The application's functions that can be registered as callbacks.
\* onPairingStatus only reports; onPairingStatusRetry asks for pairing again
\* when it is told that pairing failed.
PairingStatusCallbacks == {"onPairingStatus", "onPairingStatusRetry"}
\* onPairingStatusEncrypted asks the core, whenever it is told a status, whether
\* the link of the device is encrypted.
QueryingStatusCallbacks == {"onPairingStatusEncrypted"}
ConnectedCallbacks == {"bleDeviceConnected"}
DisconnectedCallbacks == {"bleDeviceDisconnected"}
PasskeyDisplayCallbacks == {"onPasskeyDisplay"}
PasskeyEntryCallbacks == {"onPasskeyEntry"}
\* onNumericComparison answers from within the callback that the numbers match,
\* onNumericComparisonReject that they do not.
NumericComparisonCallbacks == {"onNumericComparison", "onNumericComparisonReject"}
\* onNumericComparisonLater only shows the number: the application answers
\* afterwards, with a call of acceptNumericComparison of its own.
DeferringComparisonCallbacks == {"onNumericComparisonLater"}

\* The physical slots of the LE device database.
Slots == 0..(NVM_NUM_DEVICE_DB_ENTRIES - 1)

\* What le_device_db_info reads from a slot that holds no bond.
EmptySlot == [addr_type |-> BD_ADDR_TYPE_UNKNOWN, addr |-> 0]

\* The bond persisted in slot i by an earlier run: every slot has its own peer
\* address, public in even slots and random in odd ones.
StoredBond(i) ==
    [addr_type |-> IF i % 2 = 0 THEN BD_ADDR_TYPE_LE_PUBLIC ELSE BD_ADDR_TYPE_LE_RANDOM,
     addr |-> i + 1]

\* The address the peer on connection handle h is bonded under.
PeerBond(h) ==
    [addr_type |-> IF h % 2 = 0 THEN BD_ADDR_TYPE_LE_PUBLIC ELSE BD_ADDR_TYPE_LE_RANDOM,
     addr |-> NVM_NUM_DEVICE_DB_ENTRIES + h]

(***************************************************************************)
(* State.                                                                  *)
(***************************************************************************)
VARIABLES
    \* BLESecureClass fields
    _pairingStatus, _securityLevel, _ioCapability, _fixedPasskey, _useFixedPasskey,
    _requestPairingOnConnect, _passkeyDisplayCallback, _passkeyEntryCallback,
    _pairingStatusCallback, _numericComparisonCallback, _userConnectedCallback,
    _userDisconnectedCallback, _currentDeviceHandle, _bondingEnabled,
    \* the Security Manager engine, as the core's calls leave it
    sm_auth_req, sm_io_capabilities, sm_fixed_passkey, sm_ltk_reconstruction,
    sm_event_handlers,
    \* BTstack's connect/disconnect callback registrations
    bt_connected_cb, bt_disconnected_cb,
    \* the link layer: handles of the open connections
    links,
    \* the LE device database: the slots, the deletions issued but not yet
    \* applied by the backend (oldest first), how many of them the backend
    \* leaves unapplied, and the slot index the engine holds for each connection
    \* (-1: none), and whether the aggregate count of the backend has taken the
    \* stored bonds in (the count is advisory: FALSE, it reports 0 whatever the
    \* slots hold)
    le_device_db, tlv_pending, tlv_lag, sm_le_db_index, tlv_counted,
    \* BluetoothLock: how many times it is held
    lockDepth,
    \* history: the last operation, its result, what it did, in order, the
    \* handles whose session (the handle was the active one) has reported
    \* COMPLETE to the application with no STARTED since, and the handle whose
    \* session a completion event has ended, no status having been set since,
    \* and the handle the status STARTED was last set for, no other status having
    \* been set since, and the numeric comparison function that the registered
    \* one took the place of
    op, ret, trace, completeFired, endedSession, startedOn, replaced

fields == <<_pairingStatus, _securityLevel, _ioCapability, _fixedPasskey,
            _useFixedPasskey, _requestPairingOnConnect, _passkeyDisplayCallback,
            _passkeyEntryCallback, _pairingStatusCallback, _numericComparisonCallback,
            _userConnectedCallback, _userDisconnectedCallback, _currentDeviceHandle,
            _bondingEnabled>>
engine == <<sm_auth_req, sm_io_capabilities, sm_fixed_passkey, sm_ltk_reconstruction,
            sm_event_handlers, bt_connected_cb, bt_disconnected_cb>>
store == <<le_device_db, tlv_pending, tlv_lag, sm_le_db_index, tlv_counted>>
vars == <<fields, engine, links, store, lockDepth, op, ret, trace, completeFired,
          endedSession, startedOn, replaced>>

\* The context an operation runs in.
Cur == [
    _pairingStatus |-> _pairingStatus, _securityLevel |-> _securityLevel,
    _ioCapability |-> _ioCapability, _fixedPasskey |-> _fixedPasskey,
    _useFixedPasskey |-> _useFixedPasskey,
    _requestPairingOnConnect |-> _requestPairingOnConnect,
    _passkeyDisplayCallback |-> _passkeyDisplayCallback,
    _passkeyEntryCallback |-> _passkeyEntryCallback,
    _pairingStatusCallback |-> _pairingStatusCallback,
    _numericComparisonCallback |-> _numericComparisonCallback,
    _userConnectedCallback |-> _userConnectedCallback,
    _userDisconnectedCallback |-> _userDisconnectedCallback,
    _currentDeviceHandle |-> _currentDeviceHandle, _bondingEnabled |-> _bondingEnabled,
    sm_auth_req |-> sm_auth_req, sm_io_capabilities |-> sm_io_capabilities,
    sm_fixed_passkey |-> sm_fixed_passkey,
    sm_ltk_reconstruction |-> sm_ltk_reconstruction,
    sm_event_handlers |-> sm_event_handlers,
    bt_connected_cb |-> bt_connected_cb, bt_disconnected_cb |-> bt_disconnected_cb,
    links |-> links, lockDepth |-> lockDepth,
    le_device_db |-> le_device_db, tlv_pending |-> tlv_pending, tlv_lag |-> tlv_lag,
    sm_le_db_index |-> sm_le_db_index, tlv_counted |-> tlv_counted,
    op |-> op, ret |-> ret, trace |-> trace, completeFired |-> completeFired,
    endedSession |-> endedSession, startedOn |-> startedOn, replaced |-> replaced]

\* The state after an operation that ended in context s.
Step(s) ==
    /\ _pairingStatus' = s._pairingStatus
    /\ _securityLevel' = s._securityLevel
    /\ _ioCapability' = s._ioCapability
    /\ _fixedPasskey' = s._fixedPasskey
    /\ _useFixedPasskey' = s._useFixedPasskey
    /\ _requestPairingOnConnect' = s._requestPairingOnConnect
    /\ _passkeyDisplayCallback' = s._passkeyDisplayCallback
    /\ _passkeyEntryCallback' = s._passkeyEntryCallback
    /\ _pairingStatusCallback' = s._pairingStatusCallback
    /\ _numericComparisonCallback' = s._numericComparisonCallback
    /\ _userConnectedCallback' = s._userConnectedCallback
    /\ _userDisconnectedCallback' = s._userDisconnectedCallback
    /\ _currentDeviceHandle' = s._currentDeviceHandle
    /\ _bondingEnabled' = s._bondingEnabled
    /\ sm_auth_req' = s.sm_auth_req
    /\ sm_io_capabilities' = s.sm_io_capabilities
    /\ sm_fixed_passkey' = s.sm_fixed_passkey
    /\ sm_ltk_reconstruction' = s.sm_ltk_reconstruction
    /\ sm_event_handlers' = s.sm_event_handlers
    /\ bt_connected_cb' = s.bt_connected_cb
    /\ bt_disconnected_cb' = s.bt_disconnected_cb
    /\ links' = s.links
    /\ lockDepth' = s.lockDepth
    /\ op' = s.op
    /\ ret' = s.ret
    /\ trace' = s.trace
    /\ completeFired' = s.completeFired
    /\ le_device_db' = s.le_device_db
    /\ tlv_pending' = s.tlv_pending
    /\ tlv_lag' = s.tlv_lag
    /\ sm_le_db_index' = s.sm_le_db_index
    /\ endedSession' = s.endedSession
    /\ tlv_counted' = s.tlv_counted
    /\ startedOn' = s.startedOn
    /\ replaced' = s.replaced

\* The description of an operation: its name, its arguments, and the pairing
\* status and active handle it started from.
Op(name, device, arg, flag, fn) ==
    [name |-> name, null |-> device.null, handle |-> device.handle, arg |-> arg,
     flag |-> flag, fn |-> fn,
     preStatus |-> _pairingStatus, preHandle |-> _currentDeviceHandle]

\* The context at the entry of operation o.
Enter(o) == [Cur EXCEPT !.op = o, !.ret = "void", !.trace = <<>>]

\* One entry of the log: a call of a primitive of the lower stack ("call"), an
\* invocation of an application callback ("cb"), or the lock taken or released.
\* Each carries what the application or the engine could observe at that moment:
\* getPairingStatus(), the active handle, the engine's authentication
\* requirements and how often the lock was held.
Entry(s, ev, name, handle, arg) ==
    [ev |-> ev, name |-> name, handle |-> handle, arg |-> arg,
     status |-> s._pairingStatus, cur |-> s._currentDeviceHandle,
     auth |-> s.sm_auth_req, lock |-> s.lockDepth, dup |-> FALSE,
     addr_type |-> BD_ADDR_TYPE_UNKNOWN]

\* The entry of the log for the invocation of the application function fn
\* through the callback field name.
Invocation(s, name, fn, handle, arg) ==
    [ev |-> "cb", name |-> name, fn |-> fn, handle |-> handle, arg |-> arg,
     status |-> s._pairingStatus, cur |-> s._currentDeviceHandle,
     auth |-> s.sm_auth_req, lock |-> s.lockDepth, dup |-> FALSE]

Emit(s, e) == [s EXCEPT !.trace = Append(@, e)]

Return(s, value) == [s EXCEPT !.ret = value]

\* BluetoothLock b; ... } : taken at the declaration, released at the end of scope.
BluetoothLock(s) ==
    [Emit(s, Entry(s, "lock", "BluetoothLock", HCI_CON_HANDLE_INVALID, 0))
        EXCEPT !.lockDepth = @ + 1]
BluetoothUnlock(s) ==
    [Emit(s, Entry(s, "unlock", "BluetoothLock", HCI_CON_HANDLE_INVALID, 0))
        EXCEPT !.lockDepth = @ - 1]

(***************************************************************************)
(* Primitives of the Security Manager and GAP that the core calls.         *)
(***************************************************************************)
sm_set_io_capabilities(s, ioCapability) ==
    LET t == [s EXCEPT !.sm_io_capabilities = ioCapability]
    IN Emit(t, Entry(t, "call", "sm_set_io_capabilities", HCI_CON_HANDLE_INVALID, 0))

sm_set_authentication_requirements(s, auth_req) ==
    LET t == [s EXCEPT !.sm_auth_req = auth_req]
    IN Emit(t, Entry(t, "call", "sm_set_authentication_requirements",
                     HCI_CON_HANDLE_INVALID, 0))

sm_add_event_handler(s) ==
    LET t == [s EXCEPT !.sm_event_handlers = TRUE]
    IN Emit(t, Entry(t, "call", "sm_add_event_handler", HCI_CON_HANDLE_INVALID, 0))

sm_allow_ltk_reconstruction_without_le_device_db_entry(s, allow) ==
    LET t == [s EXCEPT !.sm_ltk_reconstruction = allow]
    IN Emit(t, Entry(t, "call", "sm_allow_ltk_reconstruction_without_le_device_db_entry",
                     HCI_CON_HANDLE_INVALID, allow))

sm_use_fixed_passkey_in_display_role(s, passkey) ==
    LET t == [s EXCEPT !.sm_fixed_passkey = passkey]
    IN Emit(t, Entry(t, "call", "sm_use_fixed_passkey_in_display_role",
                     HCI_CON_HANDLE_INVALID, passkey))

sm_request_pairing(s, handle) ==
    Emit(s, Entry(s, "call", "sm_request_pairing", handle, 0))

sm_passkey_input(s, handle, passkey) ==
    Emit(s, Entry(s, "call", "sm_passkey_input", handle, passkey))

sm_numeric_comparison_confirm(s, handle) ==
    Emit(s, Entry(s, "call", "sm_numeric_comparison_confirm", handle, 0))

sm_just_works_confirm(s, handle) ==
    Emit(s, Entry(s, "call", "sm_just_works_confirm", handle, 0))

gap_encryption_key_size(s, handle) ==
    Emit(s, Entry(s, "call", "gap_encryption_key_size", handle, 0))

\* A read of the device database that the core makes: which one, and the slot
\* index asked for or the count returned.
Read(s, name, arg) ==
    Emit(s, [ev |-> "read", name |-> name, arg |-> arg, lock |-> s.lockDepth])

\* le_device_db_count(): the number of slots that hold a bond, as the backend
\* has counted them.
le_device_db_count(s) ==
    IF s.tlv_counted
    THEN Cardinality({i \in Slots : s.le_device_db[i].addr_type # BD_ADDR_TYPE_UNKNOWN})
    ELSE 0

\* le_device_db_info(index, &addr_type, addr, NULL): what slot index holds.
le_device_db_info(s, index) ==
    IF index \in Slots THEN s.le_device_db[index] ELSE EmptySlot

\* sm_le_device_index(handle): the slot of the bond of the peer on handle.
sm_le_device_index(s, handle) ==
    IF handle \in DOMAIN s.sm_le_db_index THEN s.sm_le_db_index[handle] ELSE -1

\* The backend of the store applies the oldest issued deletions until no more
\* than tlv_lag of them are left unapplied.
RECURSIVE tlv_settle(_)
tlv_settle(s) ==
    IF Len(s.tlv_pending) > s.tlv_lag
    THEN tlv_settle([s EXCEPT !.le_device_db[Head(s.tlv_pending)] = EmptySlot,
                              !.tlv_pending = Tail(@)])
    ELSE s

\* gap_delete_bonding(addr_type, addr): the deletion of the first slot that
\* holds (addr_type, addr) is issued to the backend.
gap_delete_bonding(s, addr_type, addr) ==
    LET t == Emit(s, [Entry(s, "call", "gap_delete_bonding", HCI_CON_HANDLE_INVALID, addr)
                        EXCEPT !.addr_type = addr_type])
        matches == {i \in Slots : s.le_device_db[i] = [addr_type |-> addr_type,
                                                       addr |-> addr]}
        index == CHOOSE i \in matches : \A j \in matches : i <= j
        issued == \E k \in DOMAIN s.tlv_pending : s.tlv_pending[k] = index
    IN IF matches = {}
       THEN t
       ELSE tlv_settle([t EXCEPT !.tlv_pending = IF issued THEN @ ELSE Append(@, index)])

\* gap_disconnect(handle): the link goes down later, by notification.
gap_disconnect(s, handle) ==
    Emit(s, Entry(s, "call", "gap_disconnect", handle, 0))

\* Serial.print of a result line and the count it carries.
Serial_println(s, line, count) ==
    Emit(s, Entry(s, "print", line, HCI_CON_HANDLE_INVALID, count))

(***************************************************************************)
(* The application's callbacks.  A callback runs inside the operation that *)
(* invokes it and may call back into the core.                             *)
(***************************************************************************)
RECURSIVE requestPairing(_, _)
RECURSIVE isEncrypted(_, _)

\* What the registered pairing status function does when invoked.
AppPairingStatus(s, fn, status, device) ==
    IF fn = "onPairingStatusRetry" /\ status = PAIRING_FAILED
    THEN requestPairing(s, device)
    ELSE IF fn = "onPairingStatusEncrypted"
         THEN isEncrypted(s, device)
         ELSE s

\* _pairingStatusCallback(status, device)
CallPairingStatusCallback(s, status, device) ==
    LET h == getHandle(device)
        e == [Invocation(s, "_pairingStatusCallback", s._pairingStatusCallback, h, status)
                EXCEPT !.dup = (status = PAIRING_COMPLETE /\ h \in s.completeFired)]
        t == [Emit(s, e) EXCEPT !.completeFired =
                IF status = PAIRING_COMPLETE /\ s._currentDeviceHandle = h
                THEN @ \cup {h} ELSE @]
    IN [AppPairingStatus(t, s._pairingStatusCallback, status, device)
            EXCEPT !.ret = s.ret]

\* _userConnectedCallback(status, device)
CallUserConnectedCallback(s, status, device) ==
    Emit(s, Invocation(s, "_userConnectedCallback", s._userConnectedCallback,
                       getHandle(device), status))

\* _userDisconnectedCallback(device)
CallUserDisconnectedCallback(s, device) ==
    Emit(s, Invocation(s, "_userDisconnectedCallback", s._userDisconnectedCallback,
                       getHandle(device), 0))

\* _passkeyDisplayCallback(passkey)
CallPasskeyDisplayCallback(s, passkey) ==
    Emit(s, Invocation(s, "_passkeyDisplayCallback", s._passkeyDisplayCallback,
                       HCI_CON_HANDLE_INVALID, passkey))

\* _passkeyEntryCallback()
CallPasskeyEntryCallback(s) ==
    Emit(s, Invocation(s, "_passkeyEntryCallback", s._passkeyEntryCallback,
                       HCI_CON_HANDLE_INVALID, 0))

(***************************************************************************)
(* BLESecureClass.                                                         *)
(***************************************************************************)
\* _pairingStatus = status; a new STARTED opens a new session.
setPairingStatus(s, status) ==
    [s EXCEPT !._pairingStatus = status,
              !.completeFired = IF status = PAIRING_STARTED THEN {} ELSE @,
              !.endedSession = HCI_CON_HANDLE_INVALID,
              !.startedOn = HCI_CON_HANDLE_INVALID]

\* _pairingStatus = COMPLETE or FAILED in the handler of a completion event for
\* handle: it ends the session of handle when handle is the active one.
endSession(s, handle, status) ==
    [setPairingStatus(s, status) EXCEPT !.endedSession =
        IF s._currentDeviceHandle = handle THEN handle ELSE @]

getPairingStatus(s) == s._pairingStatus

\* setupSMEventHandler(): registers handleSMEvent with the SM engine.
setupSMEventHandler(s) == sm_add_event_handler(s)

\* begin(ioCapability)
begin(s, ioCapability) ==
    LET s1 == [s EXCEPT !._ioCapability = ioCapability]
        s2 == BluetoothLock(s1)
        s3 == sm_set_io_capabilities(s2, ioCapability)
        mitm == (ioCapability # IO_CAPABILITY_NO_INPUT_NO_OUTPUT)
        s4 == sm_set_authentication_requirements(s3,
                 IF mitm THEN SM_AUTHREQ_MITM_PROTECTION ELSE SM_AUTHREQ_NONE)
        s5 == setupSMEventHandler(s4)
    IN BluetoothUnlock(s5)

\* A faulty variant of AuthReqFor: SECURITY_LOW keeps the bonding flag.
AuthReqFor_LowKeepsBonding(level, enableBonding) ==
    CASE level = SECURITY_LOW \/ level = SECURITY_MEDIUM ->
            IF enableBonding THEN SM_AUTHREQ_BONDING ELSE SM_AUTHREQ_NONE
      [] level = SECURITY_HIGH ->
            SM_AUTHREQ_MITM_PROTECTION
                \cup (IF enableBonding THEN SM_AUTHREQ_BONDING ELSE SM_AUTHREQ_NONE)
      [] level = SECURITY_HIGH_SC ->
            SM_AUTHREQ_MITM_PROTECTION \cup SM_AUTHREQ_SECURE_CONNECTION
                \cup (IF enableBonding THEN SM_AUTHREQ_BONDING ELSE SM_AUTHREQ_NONE)
      [] OTHER -> SM_AUTHREQ_NONE

\* The switch of setSecurityLevel: auth_req for (level, enableBonding).
AuthReqFor(level, enableBonding) ==
    CASE level = SECURITY_LOW -> SM_AUTHREQ_NONE
      [] level = SECURITY_MEDIUM ->
            IF enableBonding THEN SM_AUTHREQ_BONDING ELSE SM_AUTHREQ_NONE
      [] level = SECURITY_HIGH ->
            SM_AUTHREQ_MITM_PROTECTION
                \cup (IF enableBonding THEN SM_AUTHREQ_BONDING ELSE SM_AUTHREQ_NONE)
      [] level = SECURITY_HIGH_SC ->
            SM_AUTHREQ_MITM_PROTECTION \cup SM_AUTHREQ_SECURE_CONNECTION
                \cup (IF enableBonding THEN SM_AUTHREQ_BONDING ELSE SM_AUTHREQ_NONE)
      [] OTHER -> SM_AUTHREQ_NONE

\* setSecurityLevel(level, enableBonding)
setSecurityLevel(s, level, enableBonding) ==
    LET s1 == [s EXCEPT !._securityLevel = level, !._bondingEnabled = enableBonding]
        s2 == BluetoothLock(s1)
        s3 == sm_set_authentication_requirements(s2, AuthReqFor(level, enableBonding))
    IN BluetoothUnlock(s3)

\* allowReconnectionWithoutDatabaseEntry(allow)
allowReconnectionWithoutDatabaseEntry(s, allow) ==
    LET s1 == BluetoothLock(s)
        s2 == sm_allow_ltk_reconstruction_without_le_device_db_entry(s1,
                 IF allow THEN 1 ELSE 0)
    IN BluetoothUnlock(s2)

\* setFixedPasskey(passkey)
setFixedPasskey(s, passkey) ==
    IF passkey <= MaxPasskey
    THEN LET s1 == BluetoothLock(s)
             s2 == [s1 EXCEPT !._fixedPasskey = passkey, !._useFixedPasskey = TRUE]
             s3 == sm_use_fixed_passkey_in_display_role(s2, s2._fixedPasskey)
         IN BluetoothUnlock(s3)
    ELSE [s EXCEPT !._useFixedPasskey = FALSE]

\* requestPairingOnConnect(enable)
requestPairingOnConnect(s, enable) == [s EXCEPT !._requestPairingOnConnect = enable]

\* A faulty variant of startPairing: the active handle is not recorded.
startPairing_HandleNotStored(s, device, handle) ==
    LET s1 == BluetoothLock(s)
        s2 == setPairingStatus(s1, PAIRING_STARTED)
        s4 == IF s2._pairingStatusCallback # nullptr
              THEN CallPairingStatusCallback(s2, s2._pairingStatus, device)
              ELSE s2
        s5 == sm_request_pairing(s4, handle)
    IN Return(BluetoothUnlock(s5), "true")

\* A faulty variant of startPairing: the callback runs before the status is
\* updated.
startPairing_CallbackFirst(s, device, handle) ==
    LET s1 == BluetoothLock(s)
        s2 == IF s1._pairingStatusCallback # nullptr
              THEN CallPairingStatusCallback(s1, PAIRING_STARTED, device)
              ELSE s1
        s3 == setPairingStatus(s2, PAIRING_STARTED)
        s4 == [s3 EXCEPT !._currentDeviceHandle = handle, !.startedOn = handle]
        s5 == sm_request_pairing(s4, handle)
    IN Return(BluetoothUnlock(s5), "true")

\* requestPairing, once the device is known to carry a valid handle: from the
\* lock to the return.
startPairing(s, device, handle) ==
    LET s1 == BluetoothLock(s)
        s2 == setPairingStatus(s1, PAIRING_STARTED)
        s3 == [s2 EXCEPT !._currentDeviceHandle = handle, !.startedOn = handle]
        s4 == IF s3._pairingStatusCallback # nullptr
              THEN CallPairingStatusCallback(s3, s3._pairingStatus, device)
              ELSE s3
        s5 == sm_request_pairing(s4, handle)
    IN Return(BluetoothUnlock(s5), "true")

\* A faulty variant of requestPairing: the handle is not validated.
requestPairing_HandleNotChecked(s, device) ==
    IF device.null
    THEN Return(s, "false")
    ELSE startPairing(s, device, getHandle(device))

\* requestPairing(device)
requestPairing(s, device) ==
    IF device.null
    THEN Return(s, "false")
    ELSE LET handle == getHandle(device)
         IN IF handle = HCI_CON_HANDLE_INVALID
            THEN Return(s, "false")
            ELSE startPairing(s, device, handle)

\* bondWithDevice(device)
bondWithDevice(s, device) ==
    IF device.null
    THEN Return(s, "false")
    ELSE LET originalBondingState == s._bondingEnabled
             s1 == IF ~s._bondingEnabled
                   THEN setSecurityLevel(s, s._securityLevel, TRUE)
                   ELSE s
             s2 == requestPairing(s1, device)
             result == s2.ret
             s3 == IF ~originalBondingState
                   THEN setSecurityLevel(s2, s2._securityLevel, FALSE)
                   ELSE s2
         IN Return(s3, result)

\* A faulty variant of removeBonding: the address type of the slot is not
\* looked at.
removeBonding_TypeNotChecked(s, device) ==
    IF device.null
    THEN Return(s, "false")
    ELSE LET handle == getHandle(device)
         IN IF handle = HCI_CON_HANDLE_INVALID
            THEN Return(s, "false")
            ELSE LET s0 == BluetoothLock(s)
                     device_db_index == sm_le_device_index(s0, handle)
                     s1 == Read(s0, "sm_le_device_index", device_db_index)
                     info == le_device_db_info(s1, device_db_index)
                     s2 == Read(s1, "le_device_db_info", device_db_index)
                     current_addr_type == info.addr_type
                 IN IF device_db_index < 0
                    THEN Return(BluetoothUnlock(s1), "false")
                    ELSE IF TRUE
                         THEN LET s3 == gap_delete_bonding(s2, current_addr_type, info.addr)
                                  s4 == Read(s3, "le_device_db_count", le_device_db_count(s3))
                                  s5 == gap_disconnect(s4, handle)
                              IN Return(BluetoothUnlock(s5), "true")
                         ELSE Return(BluetoothUnlock(s2), "false")

\* A faulty variant of removeBonding: the link is taken down before the bond
\* is deleted.
removeBonding_DisconnectFirst(s, device) ==
    IF device.null
    THEN Return(s, "false")
    ELSE LET handle == getHandle(device)
         IN IF handle = HCI_CON_HANDLE_INVALID
            THEN Return(s, "false")
            ELSE LET s0 == BluetoothLock(s)
                     device_db_index == sm_le_device_index(s0, handle)
                     s1 == Read(s0, "sm_le_device_index", device_db_index)
                     info == le_device_db_info(s1, device_db_index)
                     s2 == Read(s1, "le_device_db_info", device_db_index)
                     current_addr_type == info.addr_type
                 IN IF device_db_index < 0
                    THEN Return(BluetoothUnlock(s1), "false")
                    ELSE IF current_addr_type = BD_ADDR_TYPE_LE_PUBLIC
                                \/ current_addr_type = BD_ADDR_TYPE_LE_RANDOM
                         THEN LET s3 == gap_disconnect(s2, handle)
                                  s4 == gap_delete_bonding(s3, current_addr_type, info.addr)
                                  s5 == Read(s4, "le_device_db_count", le_device_db_count(s4))
                              IN Return(BluetoothUnlock(s5), "true")
                         ELSE Return(BluetoothUnlock(s2), "false")

\* removeBonding(device)
removeBonding(s, device) ==
    IF device.null
    THEN Return(s, "false")
    ELSE LET handle == getHandle(device)
         IN IF handle = HCI_CON_HANDLE_INVALID
            THEN Return(s, "false")
            ELSE LET s0 == BluetoothLock(s)
                     device_db_index == sm_le_device_index(s0, handle)
                     s1 == Read(s0, "sm_le_device_index", device_db_index)
                     info == le_device_db_info(s1, device_db_index)
                     s2 == Read(s1, "le_device_db_info", device_db_index)
                     current_addr_type == info.addr_type
                 IN IF device_db_index < 0
                    THEN Return(BluetoothUnlock(s1), "false")
                    ELSE IF current_addr_type = BD_ADDR_TYPE_LE_PUBLIC
                                \/ current_addr_type = BD_ADDR_TYPE_LE_RANDOM
                         THEN LET s3 == gap_delete_bonding(s2, current_addr_type, info.addr)
                                  s4 == Read(s3, "le_device_db_count", le_device_db_count(s3))
                                  s5 == gap_disconnect(s4, handle)
                              IN Return(BluetoothUnlock(s5), "true")
                         ELSE Return(BluetoothUnlock(s2), "false")

\* A faulty variant of scanSlots: the scan ends at the first slot without a bond.
RECURSIVE scanSlots_StopsAtEmpty(_, _, _)
scanSlots_StopsAtEmpty(s, slot_index, bonds_deleted_count) ==
    IF slot_index < NVM_NUM_DEVICE_DB_ENTRIES
    THEN LET info == le_device_db_info(s, slot_index)
             s1 == Read(s, "le_device_db_info", slot_index)
             current_addr_type == info.addr_type
         IN IF current_addr_type = BD_ADDR_TYPE_LE_PUBLIC
                \/ current_addr_type = BD_ADDR_TYPE_LE_RANDOM
            THEN scanSlots_StopsAtEmpty(gap_delete_bonding(s1, current_addr_type, info.addr),
                                        slot_index + 1, bonds_deleted_count + 1)
            ELSE [s |-> s1, bonds_deleted_count |-> bonds_deleted_count]
    ELSE [s |-> s, bonds_deleted_count |-> bonds_deleted_count]

\* The loop of clearAllBondings over the physical slots, from slot_index on:
\* the context after it and the number of deletions it issued.
RECURSIVE scanSlots(_, _, _)
scanSlots(s, slot_index, bonds_deleted_count) ==
    IF slot_index < NVM_NUM_DEVICE_DB_ENTRIES
    THEN LET info == le_device_db_info(s, slot_index)
             s1 == Read(s, "le_device_db_info", slot_index)
             current_addr_type == info.addr_type
         IN IF current_addr_type = BD_ADDR_TYPE_LE_PUBLIC
                \/ current_addr_type = BD_ADDR_TYPE_LE_RANDOM
            THEN scanSlots(gap_delete_bonding(s1, current_addr_type, info.addr),
                           slot_index + 1, bonds_deleted_count + 1)
            ELSE scanSlots(s1, slot_index + 1, bonds_deleted_count)
    ELSE [s |-> s, bonds_deleted_count |-> bonds_deleted_count]

\* A faulty variant of clearAllBondings: the residual is computed from the
\* counters of the scan and not read again from the store.
clearAllBondings_ResidualFromCounters(s) ==
    LET s0 == BluetoothLock(s)
        initial_bond_count == le_device_db_count(s0)
        s1 == Read(s0, "le_device_db_count", initial_bond_count)
        scan == scanSlots(s1, 0, 0)
        s2 == IF initial_bond_count > 0
              THEN Serial_println(scan.s, "Called gap_delete_bonding() for",
                                  scan.bonds_deleted_count)
              ELSE Serial_println(s1, "No bonds reported", 0)
        final_count == IF initial_bond_count > 0
                       THEN initial_bond_count - scan.bonds_deleted_count
                       ELSE 0
        s3 == IF final_count = 0
              THEN Serial_println(s2, "SUCCESS: All bondings appear cleared", 0)
              ELSE Serial_println(s2, "INFO: bond(s) still reported", final_count)
    IN BluetoothUnlock(s3)

\* A faulty variant of clearAllBondings: the slots are scanned again while the
\* store still reports bonds.
clearAllBondings_SecondPass(s) ==
    LET s0 == BluetoothLock(s)
        initial_bond_count == le_device_db_count(s0)
        s1 == Read(s0, "le_device_db_count", initial_bond_count)
        scan == scanSlots(s1, 0, 0)
        s2 == IF initial_bond_count > 0
              THEN Serial_println(scan.s, "Called gap_delete_bonding() for",
                                  scan.bonds_deleted_count)
              ELSE Serial_println(s1, "No bonds reported", 0)
        final_count == le_device_db_count(s2)
        s3 == Read(s2, "le_device_db_count", final_count)
        s4 == IF final_count = 0
              THEN Serial_println(s3, "SUCCESS: All bondings appear cleared", 0)
              ELSE Serial_println(scanSlots(s3, 0, 0).s, "INFO: bond(s) still reported",
                                  final_count)
    IN BluetoothUnlock(s4)

\* clearAllBondings()
clearAllBondings(s) ==
    LET s0 == BluetoothLock(s)
        initial_bond_count == le_device_db_count(s0)
        s1 == Read(s0, "le_device_db_count", initial_bond_count)
        scan == scanSlots(s1, 0, 0)
        s2 == IF initial_bond_count > 0
              THEN Serial_println(scan.s, "Called gap_delete_bonding() for",
                                  scan.bonds_deleted_count)
              ELSE Serial_println(s1, "No bonds reported", 0)
        final_count == le_device_db_count(s2)
        s3 == Read(s2, "le_device_db_count", final_count)
        s4 == IF final_count = 0
              THEN Serial_println(s3, "SUCCESS: All bondings appear cleared", 0)
              ELSE Serial_println(s3, "INFO: bond(s) still reported", final_count)
    IN BluetoothUnlock(s4)

\* The callback registrations.
setPasskeyDisplayCallback(s, callback) == [s EXCEPT !._passkeyDisplayCallback = callback]
setPasskeyEntryCallback(s, callback) == [s EXCEPT !._passkeyEntryCallback = callback]
setPairingStatusCallback(s, callback) == [s EXCEPT !._pairingStatusCallback = callback]
\* A faulty variant of setNumericComparisonCallback: a function that is
\* registered already stays.
setNumericComparisonCallback_FirstWins(s, callback) ==
    IF s._numericComparisonCallback = nullptr
    THEN [s EXCEPT !._numericComparisonCallback = callback]
    ELSE s

setNumericComparisonCallback(s, callback) ==
    [s EXCEPT !._numericComparisonCallback = callback,
              !.replaced = s._numericComparisonCallback]

\* A faulty variant of setEnteredPasskey: the session is not looked at.
setEnteredPasskey_Unguarded(s, passkey) ==
    BluetoothUnlock(sm_passkey_input(BluetoothLock(s), s._currentDeviceHandle, passkey))

\* setEnteredPasskey(passkey)
setEnteredPasskey(s, passkey) ==
    IF s._pairingStatus = PAIRING_STARTED /\ s._currentDeviceHandle # HCI_CON_HANDLE_INVALID
    THEN BluetoothUnlock(sm_passkey_input(BluetoothLock(s), s._currentDeviceHandle, passkey))
    ELSE s

\* acceptNumericComparison(accept): accept is not read.
\* A faulty variant of acceptNumericComparison: only an accepting answer is
\* confirmed to the engine.
acceptNumericComparison_HonoursAccept(s, accept) ==
    IF s._pairingStatus = PAIRING_STARTED /\ s._currentDeviceHandle # HCI_CON_HANDLE_INVALID
            /\ accept
    THEN BluetoothUnlock(
            sm_numeric_comparison_confirm(BluetoothLock(s), s._currentDeviceHandle))
    ELSE s

\* A faulty variant of acceptNumericComparison: a declined comparison fails
\* the session.
acceptNumericComparison_DeclineFails(s, accept) ==
    IF s._pairingStatus = PAIRING_STARTED /\ s._currentDeviceHandle # HCI_CON_HANDLE_INVALID
    THEN LET s1 == BluetoothUnlock(
                    sm_numeric_comparison_confirm(BluetoothLock(s), s._currentDeviceHandle))
         IN IF accept
            THEN s1
            ELSE [setPairingStatus(s1, PAIRING_FAILED)
                    EXCEPT !._currentDeviceHandle = HCI_CON_HANDLE_INVALID]
    ELSE s

acceptNumericComparison(s, accept) ==
    IF s._pairingStatus = PAIRING_STARTED /\ s._currentDeviceHandle # HCI_CON_HANDLE_INVALID
    THEN BluetoothUnlock(
            sm_numeric_comparison_confirm(BluetoothLock(s), s._currentDeviceHandle))
    ELSE s

\* isEncrypted(device); the key size is the engine's and is not modelled, so the
\* result of a call that reaches the engine is left open ("engine").
\* A faulty variant of isEncrypted: the lock is taken before the device is
\* validated.
isEncrypted_LockFirst(s, device) ==
    LET s1 == BluetoothLock(s)
    IN IF device.null
       THEN Return(BluetoothUnlock(s1), "false")
       ELSE LET handle == getHandle(device)
            IN IF handle = HCI_CON_HANDLE_INVALID
               THEN Return(BluetoothUnlock(s1), "false")
               ELSE Return(BluetoothUnlock(gap_encryption_key_size(s1, handle)), "engine")

isEncrypted(s, device) ==
    IF device.null
    THEN Return(s, "false")
    ELSE LET handle == getHandle(device)
         IN IF handle = HCI_CON_HANDLE_INVALID
            THEN Return(s, "false")
            ELSE Return(BluetoothUnlock(gap_encryption_key_size(BluetoothLock(s), handle)),
                        "engine")

\* setBLEDeviceConnectedCallback(callback)
setBLEDeviceConnectedCallback(s, callback) ==
    [s EXCEPT !._userConnectedCallback = callback,
              !.bt_connected_cb = "internalConnectionCallback"]

\* setBLEDeviceDisconnectedCallback(callback)
setBLEDeviceDisconnectedCallback(s, callback) ==
    [s EXCEPT !._userDisconnectedCallback = callback,
              !.bt_disconnected_cb = "internalDisconnectionCallback"]

\* A faulty variant of internalConnectionCallback: the application's callback
\* runs before pairing is requested.
internalConnectionCallback_UserFirst(s, status, device) ==
    LET s1 == IF s._userConnectedCallback # nullptr
              THEN CallUserConnectedCallback(s, status, device)
              ELSE s
    IN IF status = BLE_STATUS_OK /\ s1._requestPairingOnConnect
       THEN [requestPairing(s1, device) EXCEPT !.ret = s1.ret]
       ELSE s1

\* A faulty variant of internalConnectionCallback: the notification is only
\* forwarded, pairing is left to the application.
internalConnectionCallback_ForwardOnly(s, status, device) ==
    IF s._userConnectedCallback # nullptr
    THEN CallUserConnectedCallback(s, status, device)
    ELSE s

\* internalConnectionCallback(status, device)
\* A faulty variant of internalConnectionCallback: pairing is requested on
\* every successful connect, whether auto-pairing is enabled or not.
internalConnectionCallback_FlagNotChecked(s, status, device) ==
    LET s1 == IF status = BLE_STATUS_OK
              THEN [requestPairing(s, device) EXCEPT !.ret = s.ret]
              ELSE s
    IN IF s1._userConnectedCallback # nullptr
       THEN CallUserConnectedCallback(s1, status, device)
       ELSE s1

internalConnectionCallback(s, status, device) ==
    LET s1 == IF status = BLE_STATUS_OK /\ s._requestPairingOnConnect
              THEN [requestPairing(s, device) EXCEPT !.ret = s.ret]
              ELSE s
    IN IF s1._userConnectedCallback # nullptr
       THEN CallUserConnectedCallback(s1, status, device)
       ELSE s1

\* A faulty variant of internalDisconnectionCallback: the application's
\* callback runs before the reset.
internalDisconnectionCallback_UserFirst(s, device) ==
    LET s1 == IF s._userDisconnectedCallback # nullptr
              THEN CallUserDisconnectedCallback(s, device)
              ELSE s
    IN IF s1._currentDeviceHandle = getHandle(device)
       THEN [setPairingStatus(s1, PAIRING_IDLE)
                EXCEPT !._currentDeviceHandle = HCI_CON_HANDLE_INVALID]
       ELSE s1

\* A faulty variant of internalDisconnectionCallback: the reset does not look
\* at the handle.
internalDisconnectionCallback_AnyHandle(s, device) ==
    LET s1 == [setPairingStatus(s, PAIRING_IDLE)
                    EXCEPT !._currentDeviceHandle = HCI_CON_HANDLE_INVALID]
    IN IF s1._userDisconnectedCallback # nullptr
       THEN CallUserDisconnectedCallback(s1, device)
       ELSE s1

\* A faulty variant of internalDisconnectionCallback: the reset is reported to
\* the status callback.
internalDisconnectionCallback_NotifiesIdle(s, device) ==
    LET s1 == IF s._currentDeviceHandle = getHandle(device)
              THEN LET r == [setPairingStatus(s, PAIRING_IDLE)
                                EXCEPT !._currentDeviceHandle = HCI_CON_HANDLE_INVALID]
                   IN IF r._pairingStatusCallback # nullptr
                      THEN CallPairingStatusCallback(r, r._pairingStatus, device)
                      ELSE r
              ELSE s
    IN IF s1._userDisconnectedCallback # nullptr
       THEN CallUserDisconnectedCallback(s1, device)
       ELSE s1

\* internalDisconnectionCallback(device)
internalDisconnectionCallback(s, device) ==
    LET s1 == IF s._currentDeviceHandle = getHandle(device)
              THEN [setPairingStatus(s, PAIRING_IDLE)
                        EXCEPT !._currentDeviceHandle = HCI_CON_HANDLE_INVALID]
              ELSE s
    IN IF s1._userDisconnectedCallback # nullptr
       THEN CallUserDisconnectedCallback(s1, device)
       ELSE s1

(***************************************************************************)
(* handleSMEvent.                                                          *)
(***************************************************************************)
SMEventTypes == {"SM_EVENT_JUST_WORKS_REQUEST", "SM_EVENT_PASSKEY_DISPLAY_NUMBER",
                 "SM_EVENT_PASSKEY_INPUT_NUMBER", "SM_EVENT_NUMERIC_COMPARISON_REQUEST",
                 "SM_EVENT_PAIRING_STARTED", "SM_EVENT_PAIRING_COMPLETE",
                 "SM_EVENT_REENCRYPTION_STARTED", "SM_EVENT_REENCRYPTION_COMPLETE"}

\* An event packet: its type, and the fields the getters of that type read.
Packet(type, handle, status, passkey) ==
    [packet_type |-> HCI_EVENT_PACKET, type |-> type, handle |-> handle,
     status |-> status, passkey |-> passkey]

\* A faulty variant of onJustWorksRequest: the request is confirmed only for the
\* handle of a session in progress.
onJustWorksRequest_OnlyInSession(s, packet) ==
    IF s._pairingStatus = PAIRING_STARTED /\ s._currentDeviceHandle = packet.handle
    THEN sm_just_works_confirm(s, packet.handle)
    ELSE s

\* case SM_EVENT_JUST_WORKS_REQUEST
onJustWorksRequest(s, packet) == sm_just_works_confirm(s, packet.handle)

\* case SM_EVENT_PASSKEY_DISPLAY_NUMBER
onPasskeyDisplayNumber(s, packet) ==
    IF s._passkeyDisplayCallback # nullptr
    THEN CallPasskeyDisplayCallback(s, packet.passkey)
    ELSE s

\* case SM_EVENT_PASSKEY_INPUT_NUMBER
onPasskeyInputNumber(s, packet) ==
    IF s._passkeyEntryCallback # nullptr THEN CallPasskeyEntryCallback(s) ELSE s

\* What the registered numeric comparison function does when invoked: it
\* calls acceptNumericComparison with the user's answer.
AppNumericComparison(s, fn, passkey, device) ==
    CASE fn = "onNumericComparison" -> acceptNumericComparison(s, TRUE)
      [] fn = "onNumericComparisonReject" -> acceptNumericComparison(s, FALSE)
      [] OTHER -> s

\* _numericComparisonCallback(passkey, &device)
CallNumericComparisonCallback(s, passkey, device) ==
    LET t == Emit(s, Invocation(s, "_numericComparisonCallback",
                                s._numericComparisonCallback, getHandle(device), passkey))
    IN AppNumericComparison(t, s._numericComparisonCallback, passkey, device)

\* A faulty variant of onNumericComparisonRequest: the request is confirmed
\* whether a callback is registered or not.
onNumericComparisonRequest_AlwaysConfirms(s, packet) ==
    LET handle == packet.handle
        device == BLEDevice(handle)
        s1 == IF s._numericComparisonCallback # nullptr
              THEN CallNumericComparisonCallback(s, packet.passkey, device)
              ELSE s
    IN sm_numeric_comparison_confirm(s1, handle)

\* case SM_EVENT_NUMERIC_COMPARISON_REQUEST
onNumericComparisonRequest(s, packet) ==
    LET handle == packet.handle
        device == BLEDevice(handle)
    IN IF s._numericComparisonCallback # nullptr
       THEN CallNumericComparisonCallback(s, packet.passkey, device)
       ELSE sm_numeric_comparison_confirm(s, handle)

\* case SM_EVENT_PAIRING_STARTED
onPairingStarted(s, packet) ==
    LET s1 == setPairingStatus(s, PAIRING_STARTED)
        handle == packet.handle
        s2 == [s1 EXCEPT !._currentDeviceHandle = handle, !.startedOn = handle]
    IN IF s2._pairingStatusCallback # nullptr
       THEN CallPairingStatusCallback(s2, s2._pairingStatus, BLEDevice(handle))
       ELSE s2

\* A faulty variant of onPairingComplete: the active handle is left in place.
onPairingComplete_HandleKept(s, packet) ==
    LET handle == packet.handle
        device == BLEDevice(handle)
        s1 == IF packet.status = ERROR_CODE_SUCCESS
              THEN endSession(s, handle, PAIRING_COMPLETE)
              ELSE endSession(s, handle, PAIRING_FAILED)
    IN IF s1._pairingStatusCallback # nullptr
       THEN CallPairingStatusCallback(s1, s1._pairingStatus, device)
       ELSE s1

\* case SM_EVENT_PAIRING_COMPLETE
onPairingComplete(s, packet) ==
    LET handle == packet.handle
        device == BLEDevice(handle)
        s1 == IF packet.status = ERROR_CODE_SUCCESS
              THEN endSession(s, handle, PAIRING_COMPLETE)
              ELSE endSession(s, handle, PAIRING_FAILED)
        s2 == IF s1._pairingStatusCallback # nullptr
              THEN CallPairingStatusCallback(s1, s1._pairingStatus, device)
              ELSE s1
    IN [s2 EXCEPT !._currentDeviceHandle = HCI_CON_HANDLE_INVALID]

\* case SM_EVENT_REENCRYPTION_STARTED
onReencryptionStarted(s, packet) ==
    LET s1 == setPairingStatus(s, PAIRING_STARTED)
        handle == packet.handle
        s2 == [s1 EXCEPT !._currentDeviceHandle = handle, !.startedOn = handle]
    IN IF s2._pairingStatusCallback # nullptr
       THEN CallPairingStatusCallback(s2, s2._pairingStatus, BLEDevice(handle))
       ELSE s2

\* A faulty variant of onReencryptionComplete: the application is not told of
\* the outcome of a re-encryption.
onReencryptionComplete_NoCallback(s, packet) ==
    LET handle == packet.handle
        s1 == IF packet.status = ERROR_CODE_SUCCESS
              THEN endSession(s, handle, PAIRING_COMPLETE)
              ELSE endSession(s, handle, PAIRING_FAILED)
    IN [s1 EXCEPT !._currentDeviceHandle = HCI_CON_HANDLE_INVALID]

\* case SM_EVENT_REENCRYPTION_COMPLETE
onReencryptionComplete(s, packet) ==
    LET handle == packet.handle
        device == BLEDevice(handle)
        s1 == IF packet.status = ERROR_CODE_SUCCESS
              THEN endSession(s, handle, PAIRING_COMPLETE)
              ELSE endSession(s, handle, PAIRING_FAILED)
        s2 == IF s1._pairingStatusCallback # nullptr
              THEN CallPairingStatusCallback(s1, s1._pairingStatus, device)
              ELSE s1
    IN [s2 EXCEPT !._currentDeviceHandle = HCI_CON_HANDLE_INVALID]

\* handleSMEvent(packet_type, channel, packet, size)
handleSMEvent(s, packet) ==
    IF packet.packet_type # HCI_EVENT_PACKET
    THEN s
    ELSE CASE packet.type = "SM_EVENT_JUST_WORKS_REQUEST" -> onJustWorksRequest(s, packet)
           [] packet.type = "SM_EVENT_PASSKEY_DISPLAY_NUMBER" ->
                onPasskeyDisplayNumber(s, packet)
           [] packet.type = "SM_EVENT_PASSKEY_INPUT_NUMBER" ->
                onPasskeyInputNumber(s, packet)
           [] packet.type = "SM_EVENT_NUMERIC_COMPARISON_REQUEST" ->
                onNumericComparisonRequest(s, packet)
           [] packet.type = "SM_EVENT_PAIRING_STARTED" -> onPairingStarted(s, packet)
           [] packet.type = "SM_EVENT_PAIRING_COMPLETE" -> onPairingComplete(s, packet)
           [] packet.type = "SM_EVENT_REENCRYPTION_STARTED" ->
                onReencryptionStarted(s, packet)
           [] packet.type = "SM_EVENT_REENCRYPTION_COMPLETE" ->
                onReencryptionComplete(s, packet)
           [] OTHER -> s

(***************************************************************************)
(* Initial state: the global BLESecure object after its constructor, the   *)
(* engine untouched, no link open.                                         *)
(***************************************************************************)
NoDevice == BLEDevice(HCI_CON_HANDLE_INVALID)

\* The object and the engine at start, whatever the bonding store holds.
InitCore ==
    /\ _pairingStatus = PAIRING_IDLE
    /\ _securityLevel = SECURITY_MEDIUM
    /\ _ioCapability = IO_CAPABILITY_DISPLAY_YES_NO
    /\ _fixedPasskey = 0
    /\ _useFixedPasskey = FALSE
    /\ _requestPairingOnConnect = FALSE
    /\ _passkeyDisplayCallback = nullptr
    /\ _passkeyEntryCallback = nullptr
    /\ _pairingStatusCallback = nullptr
    /\ _numericComparisonCallback = nullptr
    /\ _userConnectedCallback = nullptr
    /\ _userDisconnectedCallback = nullptr
    /\ _currentDeviceHandle = HCI_CON_HANDLE_INVALID
    /\ _bondingEnabled = TRUE
    /\ sm_auth_req = SM_AUTHREQ_NONE
    /\ sm_io_capabilities = "unset"
    /\ sm_fixed_passkey = -1
    /\ sm_ltk_reconstruction = 0
    /\ sm_event_handlers = FALSE
    /\ bt_connected_cb = nullptr
    /\ bt_disconnected_cb = nullptr
    /\ links = {}
    /\ lockDepth = 0
    /\ op = Op("constructor", NoDevice, 0, FALSE, nullptr)
    /\ ret = "void"
    /\ trace = <<>>
    /\ completeFired = {}
    /\ endedSession = HCI_CON_HANDLE_INVALID
    /\ startedOn = HCI_CON_HANDLE_INVALID
    /\ replaced = nullptr
    /\ tlv_pending = <<>>
    /\ sm_le_db_index = [h \in Handles |-> -1]

\* Start with an empty bonding store whose backend deletes synchronously.
Init ==
    /\ InitCore
    /\ le_device_db = [i \in Slots |-> EmptySlot]
    /\ tlv_lag = 0
    /\ tlv_counted = TRUE

\* Start with any placement of persisted bonds in the slots of the store.
InitStore ==
    /\ InitCore
    /\ \E occupied \in SUBSET Slots :
            le_device_db = [i \in Slots |-> IF i \in occupied THEN StoredBond(i)
                                                            ELSE EmptySlot]
    /\ tlv_lag = 0
    /\ tlv_counted = TRUE

\* The slots that may hold a persisted bond where the aggregate count of the
\* backend is not relied on: the first, the last and three in between.
AdvisorySlots == {0, 3, 7, 12, NVM_NUM_DEVICE_DB_ENTRIES - 1}

\* Start with persisted bonds in some of those slots and an aggregate count
\* that may or may not have taken them in.
InitAdvisory ==
    /\ InitCore
    /\ \E occupied \in SUBSET AdvisorySlots :
            le_device_db = [i \in Slots |-> IF i \in occupied THEN StoredBond(i)
                                                            ELSE EmptySlot]
    /\ tlv_lag = 0
    /\ tlv_counted \in BOOLEAN

(***************************************************************************)
(* Actions: the application's calls.  The application, the engine's event  *)
(* delivery and the link notifications share one execution context, so an  *)
(* operation starts only when none is running: the lock is free.           *)
(***************************************************************************)
Begin ==
    \E io \in IoCapabilities :
        /\ lockDepth = 0
        /\ LET o == Op("begin", NoDevice, 0, FALSE, io)
           IN Step(begin(Enter(o), io))

\* begin() with its default argument.
BeginDefault ==
    /\ lockDepth = 0
    /\ LET o == Op("begin", NoDevice, 0, FALSE, IO_CAPABILITY_DISPLAY_YES_NO)
       IN Step(begin(Enter(o), IO_CAPABILITY_DISPLAY_YES_NO))

SetSecurityLevel ==
    \E level \in SecurityLevels, enableBonding \in BOOLEAN :
        /\ lockDepth = 0
        /\ LET o == Op("setSecurityLevel", NoDevice, level, enableBonding, nullptr)
           IN Step(setSecurityLevel(Enter(o), level, enableBonding))

AllowReconnectionWithoutDatabaseEntry ==
    \E allow \in BOOLEAN :
        /\ lockDepth = 0
        /\ LET o == Op("allowReconnectionWithoutDatabaseEntry", NoDevice, 0, allow, nullptr)
           IN Step(allowReconnectionWithoutDatabaseEntry(Enter(o), allow))

SetFixedPasskey ==
    \E passkey \in Passkeys :
        /\ lockDepth = 0
        /\ LET o == Op("setFixedPasskey", NoDevice, passkey, FALSE, nullptr)
           IN Step(setFixedPasskey(Enter(o), passkey))

RequestPairingOnConnect ==
    \E enable \in BOOLEAN :
        /\ lockDepth = 0
        /\ LET o == Op("requestPairingOnConnect", NoDevice, 0, enable, nullptr)
           IN Step(requestPairingOnConnect(Enter(o), enable))

RequestPairing ==
    \E device \in Devices :
        /\ lockDepth = 0
        /\ LET o == Op("requestPairing", device, 0, FALSE, nullptr)
           IN Step(requestPairing(Enter(o), device))

BondWithDevice ==
    \E device \in Devices :
        /\ lockDepth = 0
        /\ LET o == Op("bondWithDevice", device, 0, FALSE, nullptr)
           IN Step(bondWithDevice(Enter(o), device))

SetEnteredPasskey ==
    \E passkey \in Passkeys :
        /\ lockDepth = 0
        /\ LET o == Op("setEnteredPasskey", NoDevice, passkey, FALSE, nullptr)
           IN Step(setEnteredPasskey(Enter(o), passkey))

AcceptNumericComparison ==
    \E accept \in BOOLEAN :
        /\ lockDepth = 0
        /\ LET o == Op("acceptNumericComparison", NoDevice, 0, accept, nullptr)
           IN Step(acceptNumericComparison(Enter(o), accept))

IsEncrypted ==
    \E device \in Devices :
        /\ lockDepth = 0
        /\ LET o == Op("isEncrypted", device, 0, FALSE, nullptr)
           IN Step(isEncrypted(Enter(o), device))

GetPairingStatus ==
    /\ lockDepth = 0
    /\ LET o == Op("getPairingStatus", NoDevice, 0, FALSE, nullptr)
       IN Step(Return(Enter(o), getPairingStatus(Enter(o))))

SetPairingStatusCallback ==
    \E callback \in PairingStatusCallbacks \cup {nullptr} :
        /\ lockDepth = 0
        /\ LET o == Op("setPairingStatusCallback", NoDevice, 0, FALSE, callback)
           IN Step(setPairingStatusCallback(Enter(o), callback))

\* The application registers a status callback that calls back into the core.
SetQueryingStatusCallback ==
    \E callback \in QueryingStatusCallbacks :
        /\ lockDepth = 0
        /\ LET o == Op("setPairingStatusCallback", NoDevice, 0, FALSE, callback)
           IN Step(setPairingStatusCallback(Enter(o), callback))

SetPasskeyDisplayCallback ==
    \E callback \in PasskeyDisplayCallbacks \cup {nullptr} :
        /\ lockDepth = 0
        /\ LET o == Op("setPasskeyDisplayCallback", NoDevice, 0, FALSE, callback)
           IN Step(setPasskeyDisplayCallback(Enter(o), callback))

SetPasskeyEntryCallback ==
    \E callback \in PasskeyEntryCallbacks \cup {nullptr} :
        /\ lockDepth = 0
        /\ LET o == Op("setPasskeyEntryCallback", NoDevice, 0, FALSE, callback)
           IN Step(setPasskeyEntryCallback(Enter(o), callback))

SetNumericComparisonCallback ==
    \E callback \in NumericComparisonCallbacks \cup {nullptr} :
        /\ lockDepth = 0
        /\ LET o == Op("setNumericComparisonCallback", NoDevice, 0, FALSE, callback)
           IN Step(setNumericComparisonCallback(Enter(o), callback))

\* The application registers a numeric comparison callback that leaves the
\* answer for later.
SetDeferringComparisonCallback ==
    \E callback \in DeferringComparisonCallbacks :
        /\ lockDepth = 0
        /\ LET o == Op("setNumericComparisonCallback", NoDevice, 0, FALSE, callback)
           IN Step(setNumericComparisonCallback(Enter(o), callback))

SetBLEDeviceConnectedCallback ==
    \E callback \in ConnectedCallbacks \cup {nullptr} :
        /\ lockDepth = 0
        /\ LET o == Op("setBLEDeviceConnectedCallback", NoDevice, 0, FALSE, callback)
           IN Step(setBLEDeviceConnectedCallback(Enter(o), callback))

SetBLEDeviceDisconnectedCallback ==
    \E callback \in DisconnectedCallbacks \cup {nullptr} :
        /\ lockDepth = 0
        /\ LET o == Op("setBLEDeviceDisconnectedCallback", NoDevice, 0, FALSE, callback)
           IN Step(setBLEDeviceDisconnectedCallback(Enter(o), callback))

(***************************************************************************)
(* Actions: notifications of the link layer, which BTstack hands to the    *)
(* callback registered with it, and events of the SM engine, which reach   *)
(* handleSMEvent once begin() has registered it.                           *)
(***************************************************************************)
\* A connection to a new peer is up: BTstack calls back with (OK, &device).
Connected ==
    \E h \in Handles \ links :
        /\ lockDepth = 0
        /\ LET o == Op("connected", BLEDevice(h), BLE_STATUS_OK, FALSE, nullptr)
               s == [Enter(o) EXCEPT !.links = @ \cup {h}]
           IN Step(IF bt_connected_cb = "internalConnectionCallback"
                   THEN internalConnectionCallback(s, BLE_STATUS_OK, BLEDevice(h))
                   ELSE s)

\* A connection attempt failed: BTstack calls back with (error, NULL).
ConnectionFailed ==
    /\ lockDepth = 0
    /\ LET o == Op("connected", NullDevice, BLE_STATUS_CONNECTION_ERROR, FALSE, nullptr)
           s == Enter(o)
       IN Step(IF bt_connected_cb = "internalConnectionCallback"
               THEN internalConnectionCallback(s, BLE_STATUS_CONNECTION_ERROR, NullDevice)
               ELSE s)

\* An open connection went down: BTstack calls back with &device.
Disconnected ==
    \E h \in links :
        /\ lockDepth = 0
        /\ LET o == Op("disconnected", BLEDevice(h), 0, FALSE, nullptr)
               s == [Enter(o) EXCEPT !.links = @ \ {h}, !.completeFired = @ \ {h},
                                     !.sm_le_db_index[h] = -1]
           IN Step(IF bt_disconnected_cb = "internalDisconnectionCallback"
                   THEN internalDisconnectionCallback(s, BLEDevice(h))
                   ELSE s)

\* The SM engine delivers the event in packet to the registered handler.
Deliver(packet) ==
    LET o == Op(packet.type, BLEDevice(packet.handle), packet.status, FALSE, nullptr)
    IN handleSMEvent(Enter(o), packet)

JustWorksRequest ==
    \E h \in Handles :
        /\ lockDepth = 0
        /\ sm_event_handlers
        /\ Step(Deliver(Packet("SM_EVENT_JUST_WORKS_REQUEST", h, 0, 0)))

PasskeyDisplayNumber ==
    \E h \in Handles, passkey \in Passkeys \cap (0..MaxPasskey) :
        /\ lockDepth = 0
        /\ sm_event_handlers
        /\ Step(Deliver(Packet("SM_EVENT_PASSKEY_DISPLAY_NUMBER", h, 0, passkey)))

PasskeyInputNumber ==
    \E h \in Handles :
        /\ lockDepth = 0
        /\ sm_event_handlers
        /\ Step(Deliver(Packet("SM_EVENT_PASSKEY_INPUT_NUMBER", h, 0, 0)))

NumericComparisonRequest ==
    \E h \in Handles, passkey \in Passkeys \cap (0..MaxPasskey) :
        /\ lockDepth = 0
        /\ sm_event_handlers
        /\ Step(Deliver(Packet("SM_EVENT_NUMERIC_COMPARISON_REQUEST", h, 0, passkey)))

PairingStarted ==
    \E h \in Handles :
        /\ lockDepth = 0
        /\ sm_event_handlers
        /\ Step(Deliver(Packet("SM_EVENT_PAIRING_STARTED", h, 0, 0)))

PairingComplete ==
    \E h \in Handles, status \in EventStatuses :
        /\ lockDepth = 0
        /\ sm_event_handlers
        /\ Step(Deliver(Packet("SM_EVENT_PAIRING_COMPLETE", h, status, 0)))

ReencryptionStarted ==
    \E h \in Handles :
        /\ lockDepth = 0
        /\ sm_event_handlers
        /\ Step(Deliver(Packet("SM_EVENT_REENCRYPTION_STARTED", h, 0, 0)))

ReencryptionComplete ==
    \E h \in Handles, status \in EventStatuses :
        /\ lockDepth = 0
        /\ sm_event_handlers
        /\ Step(Deliver(Packet("SM_EVENT_REENCRYPTION_COMPLETE", h, status, 0)))

(***************************************************************************)
(* Actions: the bonding store.                                             *)
(***************************************************************************)
\* clearAllBondings(), against a backend that leaves up to lag of the deletions
\* issued to it unapplied.
ClearAllBondings ==
    \E lag \in 0..MaxLag :
        /\ lockDepth = 0
        /\ LET o == Op("clearAllBondings", NoDevice, lag, FALSE, nullptr)
           IN Step(clearAllBondings([Enter(o) EXCEPT !.tlv_lag = lag]))

\* removeBonding(device)
RemoveBonding ==
    \E device \in Devices :
        /\ lockDepth = 0
        /\ LET o == Op("removeBonding", device, 0, FALSE, nullptr)
           IN Step(removeBonding(Enter(o), device))

\* The engine gives the connection on handle h its slot of the store: the slot
\* that holds the peer's bond already, or else the lowest free slot, in which
\* it stores the bond.
BondStored ==
    \E h \in links :
        /\ lockDepth = 0
        /\ sm_le_db_index[h] = -1
        /\ \E i \in Slots :
              /\ \/ le_device_db[i] = PeerBond(h)
                 \/ /\ \A j \in Slots : le_device_db[j] # PeerBond(h)
                    /\ le_device_db[i] = EmptySlot
                    /\ \A j \in Slots : j < i => le_device_db[j] # EmptySlot
              /\ LET o == Op("bondStored", BLEDevice(h), i, FALSE, nullptr)
                 IN Step([Enter(o) EXCEPT !.le_device_db[i] = PeerBond(h),
                                          !.sm_le_db_index[h] = i])

\* The backend applies the oldest deletion it has not applied yet.
FlashWrite ==
    /\ lockDepth = 0
    /\ tlv_pending # <<>>
    /\ LET o == Op("flashWrite", NoDevice, 0, FALSE, nullptr)
       IN Step([Enter(o) EXCEPT !.le_device_db[Head(tlv_pending)] = EmptySlot,
                                !.tlv_pending = Tail(@)])

(***************************************************************************)
(* Specifications.                                                         *)
(***************************************************************************)
\* The security policy: begin, the policy setters and bondWithDevice.
NextPolicy ==
    \/ Begin
    \/ SetSecurityLevel
    \/ BondWithDevice
SpecPolicy == Init /\ [][NextPolicy]_vars

\* The pairing session: pairing requests, the Started/Complete events of the
\* engine and the status callback they invoke.
Next ==
    \/ BeginDefault
    \/ RequestPairing
    \/ SetPairingStatusCallback
    \/ PairingStarted
    \/ PairingComplete
    \/ ReencryptionStarted
    \/ ReencryptionComplete
Spec == Init /\ [][Next]_vars

\* The connection bridge: link notifications, auto-pairing on connect and the
\* callbacks registered through BLESecure, around sessions that the bridge
\* starts and the engine completes.
NextBridge ==
    \/ BeginDefault
    \/ RequestPairingOnConnect
    \/ PairingComplete
    \/ SetPairingStatusCallback
    \/ SetBLEDeviceConnectedCallback
    \/ SetBLEDeviceDisconnectedCallback
    \/ Connected
    \/ ConnectionFailed
    \/ Disconnected
SpecBridge == Init /\ [][NextBridge]_vars

\* The user interaction of a pairing: passkey display and entry, numeric
\* comparison and Just Works, around a session that starts and completes (and
\* that the application's status callback may start again).
NextInteraction ==
    \/ BeginDefault
    \/ RequestPairing
    \/ PairingComplete
    \/ SetPairingStatusCallback
    \/ SetPasskeyDisplayCallback
    \/ SetPasskeyEntryCallback
    \/ SetNumericComparisonCallback
    \/ JustWorksRequest
    \/ PasskeyDisplayNumber
    \/ PasskeyInputNumber
    \/ NumericComparisonRequest
    \/ SetEnteredPasskey
    \/ AcceptNumericComparison
SpecInteraction == Init /\ [][NextInteraction]_vars

\* The bonding store at large: clearAllBondings against every placement of
\* persisted bonds, with a backend that deletes at once or lags.
NextStore ==
    \/ ClearAllBondings
    \/ FlashWrite
SpecStore == InitStore /\ [][NextStore]_vars

\* The bonding store under an advisory count: clearAllBondings where the
\* aggregate count may disagree with what the slots hold.
NextAdvisory ==
    \/ ClearAllBondings
    \/ FlashWrite
SpecAdvisory == InitAdvisory /\ [][NextAdvisory]_vars

\* The bond of a connected peer: links come and go, the engine stores bonds,
\* the application starts sessions and removes bonds.
NextBonding ==
    \/ BeginDefault
    \/ Connected
    \/ Disconnected
    \/ BondStored
    \/ RequestPairing
    \/ RemoveBonding
SpecBonding == Init /\ [][NextBonding]_vars

\* The guarded calls of the application: the calls that validate their
\* arguments before they take the lock, on links that come up and bonds that
\* the engine stores.
NextGuards ==
    \/ BeginDefault
    \/ SetFixedPasskey
    \/ IsEncrypted
    \/ RequestPairing
    \/ RemoveBonding
    \/ Connected
    \/ BondStored
SpecGuards == Init /\ [][NextGuards]_vars

\* Callbacks that call back into the core: sessions started by the application
\* and by the engine and completed by the engine, reported to a status callback
\* that asks the core about the link.
NextReentry ==
    \/ BeginDefault
    \/ SetQueryingStatusCallback
    \/ SetPairingStatusCallback
    \/ RequestPairing
    \/ PairingStarted
    \/ PairingComplete
SpecReentry == Init /\ [][NextReentry]_vars

\* The numeric comparison: requests of the engine during and outside a
\* session, answered by the handler, from within the callback or by the
\* application afterwards.
NextComparison ==
    \/ BeginDefault
    \/ RequestPairing
    \/ PairingComplete
    \/ SetNumericComparisonCallback
    \/ SetDeferringComparisonCallback
    \/ NumericComparisonRequest
    \/ AcceptNumericComparison
SpecComparison == Init /\ [][NextComparison]_vars

\* The settings of the application, each with what its setter writes, and
\* their values after construction.
Settings == [
    policy |-> <<_securityLevel, _bondingEnabled, sm_auth_req>>,
    passkey |-> <<_fixedPasskey, _useFixedPasskey, sm_fixed_passkey>>,
    reconnection |-> sm_ltk_reconstruction,
    onConnect |-> _requestPairingOnConnect,
    status |-> _pairingStatusCallback,
    display |-> _passkeyDisplayCallback,
    entry |-> _passkeyEntryCallback,
    comparison |-> <<_numericComparisonCallback, replaced>>,
    connected |-> <<_userConnectedCallback, bt_connected_cb>>,
    disconnected |-> <<_userDisconnectedCallback, bt_disconnected_cb>>]
ConstructedSettings == [
    policy |-> <<SECURITY_MEDIUM, TRUE, SM_AUTHREQ_NONE>>,
    passkey |-> <<0, FALSE, -1>>,
    reconnection |-> 0,
    onConnect |-> FALSE,
    status |-> nullptr,
    display |-> nullptr,
    entry |-> nullptr,
    comparison |-> <<nullptr, nullptr>>,
    connected |-> <<nullptr, nullptr>>,
    disconnected |-> <<nullptr, nullptr>>]

\* At most MaxSettings of the settings differ from their constructed values.
WithinSettings ==
    Cardinality({g \in DOMAIN Settings : Settings[g] # ConstructedSettings[g]})
        <= MaxSettings

\* The calls that are not part of a session: the setters, the queries, the
\* answers of the user and the bonding store, around sessions that the
\* application starts and the engine completes.
NextFrame ==
    \/ BeginDefault
    \/ RequestPairing
    \/ PairingComplete
    \/ SetSecurityLevel /\ WithinSettings'
    \/ SetFixedPasskey /\ WithinSettings'
    \/ AllowReconnectionWithoutDatabaseEntry /\ WithinSettings'
    \/ RequestPairingOnConnect /\ WithinSettings'
    \/ SetEnteredPasskey
    \/ AcceptNumericComparison
    \/ RemoveBonding
    \/ ClearAllBondings
    \/ IsEncrypted
    \/ GetPairingStatus
    \/ SetPairingStatusCallback /\ WithinSettings'
    \/ SetPasskeyDisplayCallback /\ WithinSettings'
    \/ SetPasskeyEntryCallback /\ WithinSettings'
    \/ SetNumericComparisonCallback /\ WithinSettings'
    \/ SetBLEDeviceConnectedCallback /\ WithinSettings'
    \/ SetBLEDeviceDisconnectedCallback /\ WithinSettings'
SpecFrame == Init /\ [][NextFrame]_vars

(***************************************************************************)
(* Properties.                                                             *)
(***************************************************************************)
\* Positions of the log at which primitive name was called.
Calls(name) == {i \in DOMAIN trace : trace[i].ev = "call" /\ trace[i].name = name}

\* Positions of the log at which application callback name was invoked.
Callbacks(name) == {i \in DOMAIN trace : trace[i].ev = "cb" /\ trace[i].name = name}

\* The last operation was called on a device object that carries a valid handle.
OnValidDevice == ~op.null /\ op.handle # HCI_CON_HANDLE_INVALID

\* The table of authentication requirements, row by row.
AuthReqTable ==
    <<  <<SECURITY_LOW, FALSE, {}>>,
        <<SECURITY_LOW, TRUE, {}>>,
        <<SECURITY_MEDIUM, FALSE, {}>>,
        <<SECURITY_MEDIUM, TRUE, {"BONDING"}>>,
        <<SECURITY_HIGH, FALSE, {"MITM_PROTECTION"}>>,
        <<SECURITY_HIGH, TRUE, {"MITM_PROTECTION", "BONDING"}>>,
        <<SECURITY_HIGH_SC, FALSE, {"MITM_PROTECTION", "SECURE_CONNECTION"}>>,
        <<SECURITY_HIGH_SC, TRUE, {"MITM_PROTECTION", "SECURE_CONNECTION", "BONDING"}>> >>

\* C1: setSecurityLevel(level, bonding) pushes to the SM engine exactly the
\* requirement set of the table's row for (level, bonding): one call of
\* sm_set_authentication_requirements, after which the engine holds that set.
C1_SecurityLevelTable ==
    op.name = "setSecurityLevel" =>
        \A r \in DOMAIN AuthReqTable :
            (AuthReqTable[r][1] = op.arg /\ AuthReqTable[r][2] = op.flag) =>
                /\ sm_auth_req = AuthReqTable[r][3]
                /\ Cardinality(Calls("sm_set_authentication_requirements")) = 1
                /\ \A i \in Calls("sm_set_authentication_requirements") :
                        trace[i].auth = AuthReqTable[r][3]

\* C1 witness: SECURITY_LOW with bonding on was set after the engine held
\* other requirements, and the engine now holds none.
C1_Witness ==
    /\ op.name = "setSecurityLevel" /\ op.arg = SECURITY_LOW /\ op.flag
    /\ _securityLevel = SECURITY_LOW /\ _bondingEnabled
    /\ trace[1].auth # {}
    /\ sm_auth_req = {}

\* C2: requestPairing on a null device or on a device whose handle is invalid
\* returns false and changes nothing: the fields, the engine and the session
\* history are as before, and nothing was called, invoked or locked.
C2_InvalidRequestChangesNothing ==
    [][ (op'.name = "requestPairing" /\ (op'.null \/ op'.handle = HCI_CON_HANDLE_INVALID))
          => /\ ret' = "false"
             /\ trace' = <<>>
             /\ UNCHANGED <<fields, engine, links, store, lockDepth, completeFired>> ]_vars

\* C2 witness: a request on a device with the invalid handle was refused while
\* a session was STARTED on a valid handle with a status callback registered.
C2_Witness ==
    /\ op.name = "requestPairing" /\ ~op.null /\ op.handle = HCI_CON_HANDLE_INVALID
    /\ ret = "false"
    /\ _pairingStatus = PAIRING_STARTED
    /\ _currentDeviceHandle \in Handles
    /\ _pairingStatusCallback # nullptr

\* C3: requestPairing on a device with valid handle h returns true and leaves
\* status STARTED and active handle h, whatever the status was before, with
\* sm_request_pairing called exactly once, for h.
C3_ValidRequestStarts ==
    (op.name = "requestPairing" /\ OnValidDevice) =>
        /\ ret = "true"
        /\ _pairingStatus = PAIRING_STARTED
        /\ _currentDeviceHandle = op.handle
        /\ Cardinality(Calls("sm_request_pairing")) = 1
        /\ \A i \in Calls("sm_request_pairing") : trace[i].handle = op.handle

\* C3 witness: a request on handle 2 made when status was COMPLETE.
C3_Witness ==
    /\ op.name = "requestPairing" /\ OnValidDevice /\ op.handle = 2
    /\ op.preStatus = PAIRING_COMPLETE
    /\ ret = "true"
    /\ _pairingStatus = PAIRING_STARTED /\ _currentDeviceHandle = 2

\* C4: during a successful requestPairing(h) with a status callback registered,
\* the callback is invoked exactly once, with STARTED and device h, before the
\* call returns (the lock is still held), and getPairingStatus() inside it is
\* STARTED.
C4_StartedCallbackSynchronous ==
    (op.name = "requestPairing" /\ ret = "true" /\ _pairingStatusCallback # nullptr) =>
        /\ Cardinality(Callbacks("_pairingStatusCallback")) = 1
        /\ \A i \in Callbacks("_pairingStatusCallback") :
                /\ trace[i].arg = PAIRING_STARTED
                /\ trace[i].handle = op.handle
                /\ trace[i].status = PAIRING_STARTED
                /\ trace[i].lock = 1
                /\ i < Len(trace)

\* C4 witness: the callback ran inside a request made when status was FAILED.
C4_Witness ==
    /\ op.name = "requestPairing" /\ ret = "true"
    /\ op.preStatus = PAIRING_FAILED
    /\ _pairingStatusCallback = "onPairingStatusRetry"
    /\ \E i \in Callbacks("_pairingStatusCallback") : trace[i].status = PAIRING_STARTED

\* The bridge's auto-pairing applies to the last operation: a successful
\* connect notification with auto-pairing enabled and both the status and the
\* connected callback registered through BLESecure.
AutoPairedConnect ==
    /\ op.name = "connected" /\ op.arg = BLE_STATUS_OK
    /\ bt_connected_cb = "internalConnectionCallback"
    /\ _requestPairingOnConnect
    /\ _pairingStatusCallback # nullptr
    /\ _userConnectedCallback # nullptr

\* C5: on such a connect for handle h the status callback is invoked with
\* STARTED before the application's connected callback, and the connected
\* callback, invoked once, observes status STARTED and active handle h.
C5_StartedBeforeConnectedCallback ==
    AutoPairedConnect =>
        /\ Cardinality(Callbacks("_userConnectedCallback")) = 1
        /\ Cardinality(Callbacks("_pairingStatusCallback")) = 1
        /\ \A j \in Callbacks("_userConnectedCallback") :
                /\ trace[j].handle = op.handle
                /\ trace[j].status = PAIRING_STARTED
                /\ trace[j].cur = op.handle
                /\ \A i \in Callbacks("_pairingStatusCallback") :
                        /\ i < j
                        /\ trace[i].arg = PAIRING_STARTED
                        /\ trace[i].handle = op.handle

\* C5 witness: handle 2 connected while a session on handle 1 was STARTED, and
\* both callbacks ran.
C5_Witness ==
    /\ AutoPairedConnect /\ op.handle = 2
    /\ op.preStatus = PAIRING_STARTED /\ op.preHandle = 1
    /\ Callbacks("_pairingStatusCallback") # {}
    /\ Callbacks("_userConnectedCallback") # {}

\* The last operation was a disconnect notification handed to the bridge.
BridgedDisconnect ==
    op.name = "disconnected" /\ bt_disconnected_cb = "internalDisconnectionCallback"

\* C6: when the bridge is notified of the disconnect of the active handle,
\* status is IDLE and the active handle is cleared already when the
\* application's disconnected callback runs, and they stay so.
C6_ResetBeforeDisconnectedCallback ==
    (BridgedDisconnect /\ op.preHandle = op.handle) =>
        /\ _pairingStatus = PAIRING_IDLE
        /\ _currentDeviceHandle = HCI_CON_HANDLE_INVALID
        /\ _userDisconnectedCallback # nullptr =>
                Cardinality(Callbacks("_userDisconnectedCallback")) = 1
        /\ \A i \in Callbacks("_userDisconnectedCallback") :
                /\ trace[i].status = PAIRING_IDLE
                /\ trace[i].cur = HCI_CON_HANDLE_INVALID
                /\ trace[i].handle = op.handle

\* C6 witness: the link of a STARTED session went down and the application's
\* callback saw IDLE.
C6_Witness ==
    /\ BridgedDisconnect /\ op.preHandle = op.handle
    /\ op.preStatus = PAIRING_STARTED
    /\ \E i \in Callbacks("_userDisconnectedCallback") : trace[i].status = PAIRING_IDLE

\* C7: a disconnect notification for a handle other than the active one leaves
\* status and active handle as they were, and the application's disconnected
\* callback is still invoked.
C7_OtherHandleDisconnect ==
    (op.name = "disconnected" /\ op.preHandle # op.handle) =>
        /\ _pairingStatus = op.preStatus
        /\ _currentDeviceHandle = op.preHandle
        /\ (BridgedDisconnect /\ _userDisconnectedCallback # nullptr) =>
                /\ Cardinality(Callbacks("_userDisconnectedCallback")) = 1
                /\ \A i \in Callbacks("_userDisconnectedCallback") :
                        trace[i].handle = op.handle

\* C7 witness: handle 2 went down while a session was STARTED on handle 1, and
\* the application was told.
C7_Witness ==
    /\ BridgedDisconnect /\ op.handle = 2
    /\ op.preStatus = PAIRING_STARTED /\ op.preHandle = 1
    /\ _pairingStatus = PAIRING_STARTED /\ _currentDeviceHandle = 1
    /\ Callbacks("_userDisconnectedCallback") # {}

\* The final status a completion event with the given code stands for.
FinalStatus(code) ==
    IF code = ERROR_CODE_SUCCESS THEN PAIRING_COMPLETE ELSE PAIRING_FAILED

\* C8: a PairingComplete event received while status is STARTED sets status to
\* COMPLETE on success and to FAILED otherwise: the status callback, when
\* registered, is invoked first thing and once with that final status, for the
\* event's device, and reads it from getPairingStatus(); the status is still
\* that one when the handler returns unless the callback itself has requested
\* pairing again; and the active handle is cleared when the handler returns.
C8_PairingCompleteFromStarted ==
    (op.name = "SM_EVENT_PAIRING_COMPLETE" /\ op.preStatus = PAIRING_STARTED) =>
        LET final == FinalStatus(op.arg)
            finals == {i \in Callbacks("_pairingStatusCallback") : trace[i].arg = final}
        IN /\ _currentDeviceHandle = HCI_CON_HANDLE_INVALID
           /\ _pairingStatus =
                IF Calls("sm_request_pairing") = {} THEN final ELSE PAIRING_STARTED
           /\ _pairingStatusCallback = nullptr => trace = <<>>
           /\ _pairingStatusCallback # nullptr =>
                /\ finals = {1}
                /\ trace[1].handle = op.handle
                /\ trace[1].status = final

\* C8 witness: a session STARTED on handle 1 completed with success; the
\* callback saw COMPLETE with the handle still active, and the handle is
\* cleared now.
C8_Witness ==
    /\ op.name = "SM_EVENT_PAIRING_COMPLETE" /\ op.arg = ERROR_CODE_SUCCESS
    /\ op.preStatus = PAIRING_STARTED /\ op.preHandle = 1 /\ op.handle = 1
    /\ _pairingStatus = PAIRING_COMPLETE
    /\ _currentDeviceHandle = HCI_CON_HANDLE_INVALID
    /\ Len(trace) = 1 /\ trace[1].arg = PAIRING_COMPLETE /\ trace[1].cur = 1

\* C9: the COMPLETE status callback fires at most once per session: no status
\* callback carries COMPLETE for a handle that has already been reported
\* COMPLETE with no transition to STARTED in between.
C9_CompleteOncePerSession ==
    \A i \in Callbacks("_pairingStatusCallback") : ~trace[i].dup

\* C10: setEnteredPasskey(v) with v > 999999 issues no sm_passkey_input and
\* changes nothing, in any state.
C10_OutOfRangePasskeyRejected ==
    (op.name = "setEnteredPasskey" /\ op.arg > MaxPasskey) =>
        /\ Calls("sm_passkey_input") = {}
        /\ trace = <<>>

\* C11: setEnteredPasskey(v) calls sm_passkey_input only when status is STARTED
\* and the active handle is valid, and then exactly once, under the lock, for
\* the active handle and with v; in every other state it calls nothing and
\* takes no lock.  In both cases the fields, the engine and the links are as
\* before.
C11_PasskeyInputOnlyInSession ==
    [][ op'.name = "setEnteredPasskey" =>
          /\ UNCHANGED <<fields, engine, links, store, lockDepth, completeFired>>
          /\ IF _pairingStatus = PAIRING_STARTED
                    /\ _currentDeviceHandle # HCI_CON_HANDLE_INVALID
             THEN /\ Len(trace') = 3
                  /\ trace'[1].ev = "lock" /\ trace'[3].ev = "unlock"
                  /\ trace'[2].ev = "call" /\ trace'[2].name = "sm_passkey_input"
                  /\ trace'[2].handle = _currentDeviceHandle
                  /\ trace'[2].arg = op'.arg
             ELSE trace' = <<>> ]_vars

\* C11 witness: passkey 123456 was entered during a session on handle 2 and
\* went to the engine for handle 2.
C11_Witness ==
    /\ op.name = "setEnteredPasskey" /\ op.arg = 123456
    /\ op.preStatus = PAIRING_STARTED /\ op.preHandle = 2
    /\ \E i \in Calls("sm_passkey_input") :
            trace[i].handle = 2 /\ trace[i].arg = 123456

\* The slots of store db that hold a bond.
Occupied(db) == {i \in Slots : db[i].addr_type # BD_ADDR_TYPE_UNKNOWN}

\* Positions of log t at which gap_delete_bonding was called.
Deletions(t) == {k \in DOMAIN t : t[k].ev = "call" /\ t[k].name = "gap_delete_bonding"}

\* C12: clearAllBondings on a store of 16 slots, whichever of them hold a bond
\* (no deletion being in flight when it is called), calls gap_delete_bonding
\* once for every slot that holds a bond, with that slot's address type and
\* address, and makes no other gap_delete_bonding call: K calls for K occupied
\* slots.
C12_OneDeletePerOccupiedSlot ==
    [][ (op'.name = "clearAllBondings" /\ tlv_pending = <<>>) =>
          /\ Cardinality(Deletions(trace')) = Cardinality(Occupied(le_device_db))
          /\ \A i \in Occupied(le_device_db) :
                Cardinality({k \in Deletions(trace') :
                                /\ trace'[k].addr_type = le_device_db[i].addr_type
                                /\ trace'[k].arg = le_device_db[i].addr}) = 1 ]_vars

\* C12 witness: clearAllBondings ran on a store whose bonds were in the first
\* and the last slot only, and deleted the two.
C12_Witness ==
    /\ op.name = "clearAllBondings"
    /\ {<<trace[k].addr_type, trace[k].arg>> : k \in Deletions(trace)}
            = {<<BD_ADDR_TYPE_LE_PUBLIC, 1>>, <<BD_ADDR_TYPE_LE_RANDOM, 16>>}
    /\ Cardinality(Deletions(trace)) = 2

\* Positions of the log at which clearAllBondings reported its result.
Reports ==
    {k \in DOMAIN trace :
        /\ trace[k].ev = "print"
        /\ trace[k].name \in {"SUCCESS: All bondings appear cleared",
                               "INFO: bond(s) still reported"}}

\* C13: clearAllBondings reports once, after its last deletion, the number of
\* bonds the store holds at that moment: success exactly when there are none,
\* which is the case when the backend applies every deletion at once, and
\* otherwise the number of bonds still there.
C13_ResidualIsCountAfterScan ==
    op.name = "clearAllBondings" =>
        /\ Cardinality(Reports) = 1
        /\ \A k \in Reports :
                /\ \A d \in Deletions(trace) : d < k
                /\ trace[k].arg = Cardinality(Occupied(le_device_db))
                /\ trace[k].name = "SUCCESS: All bondings appear cleared"
                        <=> Occupied(le_device_db) = {}
                /\ tlv_lag = 0 => trace[k].arg = 0

\* C13 witness: three or more deletions were issued to a backend that leaves
\* the last one unapplied, and the residual reported is 1.
C13_Witness ==
    /\ op.name = "clearAllBondings" /\ tlv_lag = 1
    /\ Cardinality(Deletions(trace)) >= 3
    /\ \E k \in Reports :
            trace[k].name = "INFO: bond(s) still reported" /\ trace[k].arg = 1

\* C14: when the application's numeric comparison callback answers a
\* NumericComparisonRequest with acceptNumericComparison(false), the request is
\* not confirmed: sm_numeric_comparison_confirm is not called.
C14_RejectedComparisonNotConfirmed ==
    (/\ op.name = "SM_EVENT_NUMERIC_COMPARISON_REQUEST"
     /\ _numericComparisonCallback = "onNumericComparisonReject") =>
        Calls("sm_numeric_comparison_confirm") = {}

\* The last operation was a notification of a successful connect, received
\* with auto-pairing on connect enabled.
ConnectWithAutoPairing ==
    op.name = "connected" /\ op.arg = BLE_STATUS_OK /\ _requestPairingOnConnect

\* Pairing was requested for the handle of the last operation, once, and has
\* left status STARTED with that handle active.
PairingInitiated ==
    /\ _pairingStatus = PAIRING_STARTED
    /\ _currentDeviceHandle = op.handle
    /\ Cardinality(Calls("sm_request_pairing")) = 1
    /\ \A i \in Calls("sm_request_pairing") : trace[i].handle = op.handle

\* C15, as stated: with requestPairingOnConnect(true) in force, every
\* successful connect notification for a valid handle h initiates pairing
\* for h.
C15_AutoPairOnEveryConnect ==
    ConnectWithAutoPairing => PairingInitiated

\* C15, amended: with requestPairingOnConnect(true) in force, every successful
\* connect notification for a valid handle h that BTstack hands to the bridge
\* (the connected callback was registered through
\* BLESecure.setBLEDeviceConnectedCallback) initiates pairing for h.
C15_AutoPairOnBridgedConnect ==
    (ConnectWithAutoPairing /\ bt_connected_cb = "internalConnectionCallback") =>
        PairingInitiated

\* C15 witness: handle 1 connected when the status was COMPLETE, the
\* application had requested no pairing, and pairing was started for it.
C15_Witness ==
    /\ ConnectWithAutoPairing /\ bt_connected_cb = "internalConnectionCallback"
    /\ op.handle = 1 /\ op.preStatus = PAIRING_COMPLETE
    /\ PairingInitiated

\* C16: once the disconnect of a device whose session had ended COMPLETE or
\* FAILED has been notified to the bridge, getPairingStatus() is IDLE.
C16_TerminalStatusEndsWithLink ==
    (/\ BridgedDisconnect
     /\ op.handle = endedSession
     /\ op.preStatus \in {PAIRING_COMPLETE, PAIRING_FAILED}) =>
        _pairingStatus = PAIRING_IDLE

\* removeBonding(device), called in the current state, finds nothing it can
\* remove: the device is null, its handle is invalid, the engine holds no slot
\* index for the handle, or the slot's address type is not an LE one.
NothingToRemove(device) ==
    \/ device.null
    \/ device.handle = HCI_CON_HANDLE_INVALID
    \/ sm_le_db_index[device.handle] < 0
    \/ le_device_db[sm_le_db_index[device.handle]].addr_type
            \notin {BD_ADDR_TYPE_LE_PUBLIC, BD_ADDR_TYPE_LE_RANDOM}

\* C17: in each of these cases removeBonding returns false without calling
\* gap_delete_bonding or gap_disconnect (or anything else but the reads of the
\* device database that find the case out), and the pairing status, the active
\* handle and all other state are as before.
C17_RemoveBondingFailureCases ==
    [][ (op'.name = "removeBonding" /\ NothingToRemove([null |-> op'.null,
                                                         handle |-> op'.handle])) =>
          /\ ret' = "false"
          /\ \A k \in DOMAIN trace' : trace'[k].ev \in {"lock", "unlock", "read"}
          /\ UNCHANGED <<fields, engine, links, store, lockDepth, completeFired>> ]_vars

\* C17 witness: removeBonding was refused for connected handle 1, whose slot
\* holds no bond any more, during a session on handle 2.
C17_Witness ==
    /\ op.name = "removeBonding" /\ op.handle = 1 /\ ret = "false"
    /\ 1 \in links /\ sm_le_db_index[1] >= 0
    /\ le_device_db[sm_le_db_index[1]] = EmptySlot
    /\ _pairingStatus = PAIRING_STARTED /\ _currentDeviceHandle = 2

\* The calls of primitives in log t, in order.
CallsOf(t) == SelectSeq(t, LAMBDA e : e.ev = "call")

\* C18: removeBonding on a valid handle whose slot holds an LE_PUBLIC or
\* LE_RANDOM address calls gap_delete_bonding once, with the slot's address
\* type and address, then gap_disconnect once, for the handle, and nothing
\* else, and returns true.
C18_DeleteThenDisconnect ==
    [][ (op'.name = "removeBonding" /\ ~NothingToRemove([null |-> op'.null,
                                                          handle |-> op'.handle])) =>
          LET calls == CallsOf(trace')
              slot == le_device_db[sm_le_db_index[op'.handle]]
          IN /\ ret' = "true"
             /\ Len(calls) = 2
             /\ calls[1].name = "gap_delete_bonding"
             /\ calls[1].addr_type = slot.addr_type /\ calls[1].arg = slot.addr
             /\ calls[2].name = "gap_disconnect"
             /\ calls[2].handle = op'.handle ]_vars

\* C18 witness: the bond of the peer on handle 2, stored in the second slot,
\* was removed and the link told to go down.
C18_Witness ==
    /\ op.name = "removeBonding" /\ op.handle = 2 /\ ret = "true"
    /\ sm_le_db_index[2] = 1
    /\ Len(CallsOf(trace)) = 2
    /\ CallsOf(trace)[1].name = "gap_delete_bonding"
    /\ CallsOf(trace)[1].arg = PeerBond(2).addr
    /\ CallsOf(trace)[2].name = "gap_disconnect"

\* C19: bondWithDevice restores the security policy: when it has returned,
\* the bonding flag, the security level and the authentication requirements
\* the engine holds are what they were when it was called.
C19_BondWithDeviceRestoresPolicy ==
    [][ op'.name = "bondWithDevice" =>
          UNCHANGED <<_bondingEnabled, _securityLevel, sm_auth_req>> ]_vars

\* C20: bondWithDevice on a null device or on a device whose handle is invalid
\* returns false, calls no primitive of the engine and changes nothing.
C20_InvalidBondRequestChangesNothing ==
    [][ (op'.name = "bondWithDevice" /\ (op'.null \/ op'.handle = HCI_CON_HANDLE_INVALID))
          => /\ ret' = "false"
             /\ CallsOf(trace') = <<>>
             /\ UNCHANGED <<fields, engine, links, store, completeFired>> ]_vars

\* C21: setFixedPasskey(v) with 0 <= v <= 999999 makes v the fixed passkey of
\* the policy and of the engine; with v > 999999 neither the stored policy nor
\* the engine uses a fixed passkey afterwards, even when a valid one had been
\* set earlier.
C21_OutOfRangeRevertsToRandom ==
    op.name = "setFixedPasskey" =>
        IF op.arg <= MaxPasskey
        THEN _useFixedPasskey /\ _fixedPasskey = op.arg /\ sm_fixed_passkey = op.arg
        ELSE ~_useFixedPasskey /\ sm_fixed_passkey = -1

\* The events of the engine that open a session and those that close one.
StartEvents == {"SM_EVENT_PAIRING_STARTED", "SM_EVENT_REENCRYPTION_STARTED"}
CompletionEvents == {"SM_EVENT_PAIRING_COMPLETE", "SM_EVENT_REENCRYPTION_COMPLETE"}

\* C22: the pairing status changes only along the state machine: to STARTED
\* by a pairing request (of the application, also from within a callback) or a
\* start event of the engine; from STARTED to COMPLETE or FAILED by a completion
\* event; from STARTED to IDLE by the disconnection of the active device.  A
\* completion event received while the status is IDLE, COMPLETE or FAILED does
\* not change it.
C22_StatusFollowsStateMachine ==
    [][ _pairingStatus' # _pairingStatus =>
          \/ /\ _pairingStatus' = PAIRING_STARTED
             /\ \/ op'.name \in StartEvents
                \/ \E i \in DOMAIN trace' : /\ trace'[i].ev = "call"
                                              /\ trace'[i].name = "sm_request_pairing"
          \/ /\ _pairingStatus = PAIRING_STARTED
             /\ _pairingStatus' \in {PAIRING_COMPLETE, PAIRING_FAILED}
             /\ op'.name \in CompletionEvents
          \/ /\ _pairingStatus = PAIRING_STARTED
             /\ _pairingStatus' = PAIRING_IDLE
             /\ op'.name = "disconnected"
             /\ op'.handle = _currentDeviceHandle ]_vars

\* C23: while the status is STARTED, the disconnection of the link the session
\* was started on, notified to the bridge, resets the status to IDLE and leaves
\* no active handle, whatever calls, events and callbacks came before.
C23_DisconnectAbortsStartedSession ==
    [][ (/\ op'.name = "disconnected"
         /\ bt_disconnected_cb = "internalDisconnectionCallback"
         /\ _pairingStatus = PAIRING_STARTED
         /\ startedOn = op'.handle) =>
            /\ _pairingStatus' = PAIRING_IDLE
            /\ _currentDeviceHandle' = HCI_CON_HANDLE_INVALID ]_vars

PairingEventFor(type) ==
    IF type = "SM_EVENT_REENCRYPTION_STARTED" THEN "SM_EVENT_PAIRING_STARTED"
                                              ELSE "SM_EVENT_PAIRING_COMPLETE"

\* C25: a ReencryptionStarted or ReencryptionComplete event is handled as the
\* PairingStarted or PairingComplete event for the same handle and status would
\* have been handled in its place: the status, the active handle, the sequence
\* of callbacks and calls and all other state come out the same.
C25_ReencryptionAsPairing ==
    [][ op'.name \in {"SM_EVENT_REENCRYPTION_STARTED", "SM_EVENT_REENCRYPTION_COMPLETE"} =>
          LET twin == Deliver(Packet(PairingEventFor(op'.name), op'.handle, op'.arg, 0))
          IN /\ _pairingStatus' = twin._pairingStatus
             /\ _currentDeviceHandle' = twin._currentDeviceHandle
             /\ trace' = twin.trace
             /\ Cur' = [twin EXCEPT !.op.name = op'.name] ]_vars

\* C25 witness: the re-encryption of the session on handle 1 failed; the
\* application was told FAILED for handle 1 and the handle is cleared, as after
\* a failed pairing.
C25_Witness ==
    /\ op.name = "SM_EVENT_REENCRYPTION_COMPLETE"
    /\ op.arg = ERROR_CODE_AUTHENTICATION_FAILURE
    /\ op.preStatus = PAIRING_STARTED /\ op.preHandle = 1 /\ op.handle = 1
    /\ _pairingStatus = PAIRING_FAILED
    /\ _currentDeviceHandle = HCI_CON_HANDLE_INVALID
    /\ \E i \in Callbacks("_pairingStatusCallback") :
            trace[i].arg = PAIRING_FAILED /\ trace[i].handle = 1

\* C26: once the core is initialised, whenever bondWithDevice calls
\* sm_request_pairing for a device with a valid handle, the authentication
\* requirements of the engine include BONDING at that moment, whatever the
\* bonding flag and the security level were before the call.
C26_BondWithDeviceForcesBonding ==
    (op.name = "bondWithDevice" /\ OnValidDevice /\ sm_event_handlers) =>
        /\ Calls("sm_request_pairing") # {}
        /\ \A i \in Calls("sm_request_pairing") : "BONDING" \in trace[i].auth

\* Positions of log t at which a slot of the device database was read.
SlotReads(t) == {k \in DOMAIN t : t[k].ev = "read" /\ t[k].name = "le_device_db_info"}

\* C27: the count that clearAllBondings reads first is diagnostic only: with
\* bonds in the slots (no deletion being in flight) the scan reads every slot
\* and gap_delete_bonding is called once for every slot that holds a bond,
\* whatever that count was, 0 included.
C27_InitialCountIsDiagnostic ==
    [][ (/\ op'.name = "clearAllBondings"
         /\ tlv_pending = <<>>
         /\ Occupied(le_device_db) # {}) =>
            /\ {trace'[k].arg : k \in SlotReads(trace')} = Slots
            /\ \A i \in Occupied(le_device_db) :
                    \E k \in Deletions(trace') :
                        /\ trace'[k].addr_type = le_device_db[i].addr_type
                        /\ trace'[k].arg = le_device_db[i].addr ]_vars

\* Positions of log t at which the aggregate count of the device database was
\* read.
CountReads(t) == {k \in DOMAIN t : t[k].ev = "read" /\ t[k].name = "le_device_db_count"}

\* The slot indices read in log t, in the order of the reads.
SlotsRead(t) ==
    LET reads == SelectSeq(t, LAMBDA e : e.ev = "read" /\ e.name = "le_device_db_info")
    IN [k \in DOMAIN reads |-> reads[k].arg]

\* C28: clearAllBondings returns, with the lock released, after one pass: when
\* it scans (the count read first is not 0) it reads each of the 16 slots once,
\* in index order 0..15, whatever deletions it issues on the way; it reads the
\* aggregate count twice, first thing under the lock and again only after the
\* last slot read and the last deletion, and reads no slot after that, even
\* when that count is not 0.
C28_OnePassInSlotOrder ==
    op.name = "clearAllBondings" =>
        LET first == CHOOSE k \in CountReads(trace) : \A j \in CountReads(trace) : k <= j
            last == CHOOSE k \in CountReads(trace) : \A j \in CountReads(trace) : j <= k
        IN /\ lockDepth = 0
           /\ trace[Len(trace)].ev = "unlock"
           /\ Cardinality(CountReads(trace)) = 2
           /\ first = 2
           /\ SlotsRead(trace) = IF trace[first].arg > 0
                                 THEN [k \in 1..NVM_NUM_DEVICE_DB_ENTRIES |-> k - 1]
                                 ELSE <<>>
           /\ \A k \in SlotReads(trace) \cup Deletions(trace) : first < k /\ k < last

\* C28 witness: clearAllBondings scanned a store with bonds in the first and
\* the last slot whose backend lags; it made 16 slot reads and 2 deletions and
\* then read a count of 1.
C28_Witness ==
    /\ op.name = "clearAllBondings"
    /\ Len(SlotsRead(trace)) = NVM_NUM_DEVICE_DB_ENTRIES
    /\ Cardinality(Deletions(trace)) = 2
    /\ \E k \in Deletions(trace) : trace[k].arg = StoredBond(0).addr
    /\ \E k \in Deletions(trace) :
            trace[k].arg = StoredBond(NVM_NUM_DEVICE_DB_ENTRIES - 1).addr
    /\ \E k \in CountReads(trace) : k > 2 /\ trace[k].arg = 1

\* Positions of the log at which the lock was taken, and at which it was
\* released.
Locks == {k \in DOMAIN trace : trace[k].ev = "lock"}
Unlocks == {k \in DOMAIN trace : trace[k].ev = "unlock"}

\* C29: every operation has released the lock when it returns, on whichever
\* path it returns; and requestPairing, removeBonding and isEncrypted on a null
\* device or an invalid handle, and setFixedPasskey on a value above 999999,
\* never take it.
C29_LockReleasedOnEveryPath ==
    /\ lockDepth = 0
    /\ Cardinality(Locks) = Cardinality(Unlocks)
    /\ (op.name \in {"requestPairing", "removeBonding", "isEncrypted"} /\ ~OnValidDevice) =>
            Locks = {}
    /\ (op.name = "setFixedPasskey" /\ op.arg > MaxPasskey) => Locks = {}

\* C29 witness: removeBonding for connected handle 1, which has no bond, took
\* the lock, returned false early and has released it.
C29_Witness ==
    /\ op.name = "removeBonding" /\ op.handle = 1 /\ 1 \in links
    /\ ret = "false"
    /\ Locks = {1} /\ Unlocks = {Len(trace)}
    /\ lockDepth = 0

\* C30: every call into the lower stack, a primitive of the Security Manager
\* or of GAP or a read of the device database, is made while the core holds
\* the lock; the confirmations that the handler of the engine's events issues
\* for Just Works and numeric comparison requests are among them.
C30_LowerStackCallsUnderLock ==
    \A k \in DOMAIN trace : trace[k].ev \in {"call", "read"} => trace[k].lock >= 1

\* C31: the lock is never taken while it is held: an application callback that
\* the core invokes can call any public operation of the core without waiting
\* for a lock that its own caller holds.
C31_LockNeverTakenWhileHeld ==
    \A k \in Locks : trace[k].lock = 0

\* C32: on a connect notification with auto-pairing disabled, or with a status
\* that is not OK, no pairing is requested, no status callback runs and the
\* status and the active handle are as before; and on every connect
\* notification the application's connected callback, when registered, is
\* invoked exactly once, with the status and the device of the notification.
C32_ConnectWithoutAutoPairing ==
    [][ op'.name = "connected" =>
          /\ (~_requestPairingOnConnect \/ op'.arg # BLE_STATUS_OK) =>
                /\ \A k \in DOMAIN trace' :
                        /\ trace'[k].ev = "cb"
                        /\ trace'[k].name = "_userConnectedCallback"
                /\ UNCHANGED <<_pairingStatus, _currentDeviceHandle>>
          /\ _userConnectedCallback # nullptr =>
                LET forwarded == {k \in DOMAIN trace' :
                                    /\ trace'[k].ev = "cb"
                                    /\ trace'[k].name = "_userConnectedCallback"}
                IN /\ Cardinality(forwarded) = 1
                   /\ \A k \in forwarded : /\ trace'[k].arg = op'.arg
                                            /\ trace'[k].handle = op'.handle ]_vars

\* C32 witness: with auto-pairing enabled and a session STARTED on handle 1, a
\* failed connection attempt was notified; the application's connected
\* callback ran once with the error status, and the session is as it was.
C32_Witness ==
    /\ op.name = "connected" /\ op.arg = BLE_STATUS_CONNECTION_ERROR
    /\ _requestPairingOnConnect
    /\ op.preStatus = PAIRING_STARTED /\ op.preHandle = 1
    /\ _pairingStatus = PAIRING_STARTED /\ _currentDeviceHandle = 1
    /\ Len(trace) = 1
    /\ trace[1].name = "_userConnectedCallback"
    /\ trace[1].arg = BLE_STATUS_CONNECTION_ERROR

\* The events of the engine that ask for, or show, the user's part in a pairing.
InteractionEvents ==
    {"SM_EVENT_JUST_WORKS_REQUEST", "SM_EVENT_PASSKEY_DISPLAY_NUMBER",
     "SM_EVENT_PASSKEY_INPUT_NUMBER", "SM_EVENT_NUMERIC_COMPARISON_REQUEST"}

\* C33: a JustWorksRequest, PasskeyDisplayNumber, PasskeyInputNumber or
\* NumericComparisonRequest event, in whatever status it arrives, leaves the
\* pairing status and the active handle as they were and invokes no status
\* callback; and a JustWorksRequest makes exactly one call of the lower stack,
\* sm_just_works_confirm for the handle of the event.
C33_InteractionEventsKeepStatus ==
    [][ op'.name \in InteractionEvents =>
          /\ UNCHANGED <<_pairingStatus, _currentDeviceHandle>>
          /\ \A k \in DOMAIN trace' :
                ~(trace'[k].ev = "cb" /\ trace'[k].name = "_pairingStatusCallback")
          /\ op'.name = "SM_EVENT_JUST_WORKS_REQUEST" =>
                /\ Len(trace') = 1
                /\ trace'[1].ev = "call"
                /\ trace'[1].name = "sm_just_works_confirm"
                /\ trace'[1].handle = op'.handle ]_vars

\* C33 witness: a JustWorksRequest for handle 2 arrived after the session on
\* handle 1 had failed; it was confirmed for handle 2 and the status is still
\* FAILED.
C33_Witness ==
    /\ op.name = "SM_EVENT_JUST_WORKS_REQUEST" /\ op.handle = 2
    /\ op.preStatus = PAIRING_FAILED
    /\ _pairingStatus = PAIRING_FAILED
    /\ _currentDeviceHandle = HCI_CON_HANDLE_INVALID
    /\ \E k \in Calls("sm_just_works_confirm") : trace[k].handle = 2

\* The callback field through which an event of the engine is dispatched, and
\* the function registered in it.
FieldOf(event) ==
    CASE event = "SM_EVENT_PASSKEY_DISPLAY_NUMBER" -> "_passkeyDisplayCallback"
      [] event = "SM_EVENT_PASSKEY_INPUT_NUMBER" -> "_passkeyEntryCallback"
      [] event = "SM_EVENT_NUMERIC_COMPARISON_REQUEST" -> "_numericComparisonCallback"
      [] OTHER -> "_pairingStatusCallback"
Registered(event) ==
    CASE event = "SM_EVENT_PASSKEY_DISPLAY_NUMBER" -> _passkeyDisplayCallback
      [] event = "SM_EVENT_PASSKEY_INPUT_NUMBER" -> _passkeyEntryCallback
      [] event = "SM_EVENT_NUMERIC_COMPARISON_REQUEST" -> _numericComparisonCallback
      [] OTHER -> _pairingStatusCallback

\* The events of the engine that are dispatched to a callback of the
\* application.
DispatchedEvents ==
    (InteractionEvents \ {"SM_EVENT_JUST_WORKS_REQUEST"}) \cup StartEvents
        \cup CompletionEvents

\* C34: a registration replaces the function registered for its kind of event,
\* and every later event of a kind invokes the function registered last for
\* that kind, once for the event, and no other function, whatever events of
\* the kind came before it: nothing is queued and nothing is retried.
C34_LastRegistrationWins ==
    [][ /\ op'.name \in {"setPairingStatusCallback", "setPasskeyDisplayCallback",
                         "setPasskeyEntryCallback", "setNumericComparisonCallback"} =>
            /\ op'.name = "setPairingStatusCallback" => _pairingStatusCallback' = op'.fn
            /\ op'.name = "setPasskeyDisplayCallback" => _passkeyDisplayCallback' = op'.fn
            /\ op'.name = "setPasskeyEntryCallback" => _passkeyEntryCallback' = op'.fn
            /\ op'.name = "setNumericComparisonCallback" =>
                    _numericComparisonCallback' = op'.fn
        /\ op'.name \in DispatchedEvents =>
            LET invoked == {k \in DOMAIN trace' :
                                /\ trace'[k].ev = "cb"
                                /\ trace'[k].name = FieldOf(op'.name)}
            IN /\ \A k \in invoked : trace'[k].fn = Registered(op'.name)
               /\ Registered(op'.name) = nullptr => invoked = {}
               /\ Registered(op'.name) # nullptr =>
                    /\ 1 \in invoked
                    /\ Cardinality({k \in invoked :
                                        trace'[k].arg = trace'[1].arg}) = 1 ]_vars

\* C34 witness: onNumericComparisonReject was registered in the place of
\* onNumericComparison, and a NumericComparisonRequest then invoked
\* onNumericComparisonReject, once.
C34_Witness ==
    /\ op.name = "SM_EVENT_NUMERIC_COMPARISON_REQUEST"
    /\ replaced = "onNumericComparison"
    /\ _numericComparisonCallback = "onNumericComparisonReject"
    /\ Cardinality(Callbacks("_numericComparisonCallback")) = 1
    /\ trace[1].ev = "cb" /\ trace[1].fn = "onNumericComparisonReject"

\* C35: between operations the active handle is valid exactly when the pairing
\* status is STARTED, whatever calls, events, notifications and callbacks that
\* call back into the core came before.
C35_ActiveHandleIffStarted ==
    (_currentDeviceHandle # HCI_CON_HANDLE_INVALID) <=> (_pairingStatus = PAIRING_STARTED)

\* C36: a PairingComplete or ReencryptionComplete event for a handle other than
\* the active one leaves the pairing status and the active handle as they were
\* and invokes no status callback: the session in progress is not ended by the
\* completion event of another connection.
C36_OtherHandleCompletionIgnored ==
    [][ (/\ op'.name \in CompletionEvents
         /\ _currentDeviceHandle # HCI_CON_HANDLE_INVALID
         /\ op'.handle # _currentDeviceHandle) =>
            /\ UNCHANGED <<_pairingStatus, _currentDeviceHandle>>
            /\ \A k \in DOMAIN trace' :
                    ~(trace'[k].ev = "cb" /\ trace'[k].name = "_pairingStatusCallback") ]_vars

\* C37: with no numeric comparison callback registered, the handler answers a
\* NumericComparisonRequest itself: its one call is
\* sm_numeric_comparison_confirm for the handle of the event.  With a callback
\* registered, the handler invokes it for the device of the event and issues no
\* confirmation: one is issued only by a call of acceptNumericComparison that
\* the application makes (here from within the callback, under the lock of
\* that call), and none when the callback leaves the answer for later.
C37_AutoConfirmOnlyWithoutCallback ==
    [][ op'.name = "SM_EVENT_NUMERIC_COMPARISON_REQUEST" =>
          LET confirms == {k \in DOMAIN trace' :
                                /\ trace'[k].ev = "call"
                                /\ trace'[k].name = "sm_numeric_comparison_confirm"}
          IN IF _numericComparisonCallback = nullptr
             THEN /\ Len(trace') = 1
                  /\ confirms = {1}
                  /\ trace'[1].handle = op'.handle
             ELSE /\ trace'[1].ev = "cb"
                  /\ trace'[1].name = "_numericComparisonCallback"
                  /\ trace'[1].handle = op'.handle
                  /\ \A k \in confirms : /\ trace'[k].lock >= 1
                                          /\ trace'[k - 1].ev = "lock"
                  /\ _numericComparisonCallback \in DeferringComparisonCallbacks =>
                        Len(trace') = 1 ]_vars

\* C37 witness: during the session on handle 1 a NumericComparisonRequest for
\* handle 1 went to a callback that leaves the answer for later, and nothing
\* was confirmed.
C37_Witness ==
    /\ op.name = "SM_EVENT_NUMERIC_COMPARISON_REQUEST" /\ op.handle = 1
    /\ op.preStatus = PAIRING_STARTED /\ op.preHandle = 1
    /\ _numericComparisonCallback = "onNumericComparisonLater"
    /\ Callbacks("_numericComparisonCallback") = {1}
    /\ Calls("sm_numeric_comparison_confirm") = {}

\* The authentication requirements of the engine are those of the table for
\* the stored security level and bonding flag.
EngineFollowsPolicy == sm_auth_req = AuthReqFor(_securityLevel, _bondingEnabled)

OutsideSession == {
    "setSecurityLevel", "setFixedPasskey", "allowReconnectionWithoutDatabaseEntry",
    "requestPairingOnConnect", "setEnteredPasskey", "acceptNumericComparison",
    "removeBonding", "clearAllBondings", "isEncrypted", "getPairingStatus",
    "setPairingStatusCallback", "setPasskeyDisplayCallback", "setPasskeyEntryCallback",
    "setNumericComparisonCallback", "setBLEDeviceConnectedCallback",
    "setBLEDeviceDisconnectedCallback"}
SessionOperations ==
    {"requestPairing", "bondWithDevice", "disconnected"} \cup StartEvents
        \cup CompletionEvents

C40_StatusCallbackNeverIdle ==
    /\ \A k \in Callbacks("_pairingStatusCallback") :
            /\ trace[k].arg \in {PAIRING_STARTED, PAIRING_COMPLETE, PAIRING_FAILED}
            /\ trace[k].arg = trace[k].status
    /\ op.name = "disconnected" => Callbacks("_pairingStatusCallback") = {}

\* The connection of the session in progress has gone down with a status
\* callback registered: the bridge has reset the status to IDLE and told the
\* application's disconnect callback, and the status callback was not invoked.
C40_Witness ==
    /\ op.name = "disconnected"
    /\ op.preStatus = PAIRING_STARTED
    /\ op.preHandle = op.handle
    /\ _pairingStatusCallback # nullptr
    /\ _pairingStatus = PAIRING_IDLE
    /\ Callbacks("_userDisconnectedCallback") # {}
    /\ Callbacks("_pairingStatusCallback") = {}

=============================================================================
